---- MODULE Spec2Model ----
(***************************************************************************)
(* Guardrail validation and coaching of the fishing sales agent.           *)
(*                                                                         *)
(* Texts are sequences of one-character strings, so that Python's          *)
(* substring test (`in`), str.lower() and re.findall are computed on the   *)
(* characters, as the code computes them.  Money and weights are fixed     *)
(* point numbers in hundredths (4.2 is 420, 450.0 lbs is 45000); the       *)
(* arithmetic on them is exact.                                            *)
(***************************************************************************)
EXTENDS Integers, Sequences, FiniteSets, TLC

VARIABLES agent_profiles, coaching_history, clock, messages, now, call, result

vars == <<agent_profiles, coaching_history, clock, messages, now, call, result>>

(***************************************************************************)
(* Bounds of the model.                                                    *)
(***************************************************************************)
MaxHistory == 1
MaxMessages == 3

\* timedelta(hours=24)
HoursWindow == 24

(***************************************************************************)
(* Characters and strings.                                                 *)
(***************************************************************************)
DigitChars == <<"0", "1", "2", "3", "4", "5", "6", "7", "8", "9">>

DigitOf == [c \in {DigitChars[k] : k \in 1..10} |->
              (CHOOSE k \in 1..10 : DigitChars[k] = c) - 1]

IsDigit(c) == c \in DOMAIN DigitOf

DigitValue(c) == DigitOf[c]

UpperChars == <<"A", "B", "C", "D", "E", "F", "G", "H", "I", "J", "K", "L", "M",
                "N", "O", "P", "Q", "R", "S", "T", "U", "V", "W", "X", "Y", "Z">>

LowerChars == <<"a", "b", "c", "d", "e", "f", "g", "h", "i", "j", "k", "l", "m",
                "n", "o", "p", "q", "r", "s", "t", "u", "v", "w", "x", "y", "z">>

\* str.lower() on one character
LowerOf == [c \in {UpperChars[k] : k \in 1..26} |->
               LowerChars[CHOOSE k \in 1..26 : UpperChars[k] = c]]

LowerChar(c) == IF c \in DOMAIN LowerOf THEN LowerOf[c] ELSE c

\* str.lower()
Lower(t) == [i \in 1..Len(t) |-> LowerChar(t[i])]

\* Python's `sub in t` on strings
Contains(sub, t) ==
    \/ sub = <<>>
    \/ \E i \in 1..(Len(t) - Len(sub) + 1) :
           t[i] = sub[1] /\ SubSeq(t, i, i + Len(sub) - 1) = sub

RECURSIVE NatStr(_)
\* str() of a non-negative int
NatStr(n) == IF n < 10 THEN <<DigitChars[n + 1]>>
             ELSE NatStr(n \div 10) \o <<DigitChars[(n % 10) + 1]>>

\* str(int(x)) for a float x >= 0 held in hundredths
IntStr(x) == NatStr(x \div 100)

\* str() of a float held in hundredths: shortest decimal form, at least
\* one digit after the point (450.0, 4.2, 4.25)
FloatStr(x) ==
    NatStr(x \div 100) \o <<".">> \o
        (IF x % 10 = 0 THEN <<DigitChars[((x % 100) \div 10) + 1]>>
         ELSE <<DigitChars[((x % 100) \div 10) + 1], DigitChars[(x % 10) + 1]>>)

(***************************************************************************)
(* re.findall(r'\$(\d+(?:,\d{3})*(?:\.\d{2})?)', draft_text)               *)
(***************************************************************************)
DigitAt(t, i) == i >= 1 /\ i <= Len(t) /\ IsDigit(t[i])

RECURSIVE DigitRunEnd(_, _)
\* \d+ from position i, greedy: the index of the last digit of the run that
\* starts at i, i - 1 when t[i] is no digit
DigitRunEnd(t, i) == IF DigitAt(t, i) THEN DigitRunEnd(t, i + 1) ELSE i - 1

RECURSIVE CommaGroupsEnd(_, _)
\* (?:,\d{3})* after position e, greedy
CommaGroupsEnd(t, e) ==
    IF e + 4 <= Len(t) /\ t[e + 1] = "," /\ DigitAt(t, e + 2)
       /\ DigitAt(t, e + 3) /\ DigitAt(t, e + 4)
    THEN CommaGroupsEnd(t, e + 4)
    ELSE e

\* (?:\.\d{2})? after position e
CentsEnd(t, e) ==
    IF e + 3 <= Len(t) /\ t[e + 1] = "." /\ DigitAt(t, e + 2) /\ DigitAt(t, e + 3)
    THEN e + 3
    ELSE e

\* the end of the match that starts with the "$" at position i; every part
\* after \d+ is optional, so the greedy choice is the match
DollarMatchEnd(t, i) == CentsEnd(t, CommaGroupsEnd(t, DigitRunEnd(t, i + 1)))

\* the positions where a match can start: a "$" followed by a digit
DollarStarts(t) == {i \in 1..Len(t) : t[i] = "$" /\ DigitAt(t, i + 1)}

RECURSIVE FindAllFrom(_, _)
\* the matches from position i on, left to right and not overlapping (no
\* match contains a "$", so the scan resumes at the next start after a match)
FindAllFrom(t, i) ==
    LET starts == {j \in DollarStarts(t) : j >= i}
    IN  IF starts = {} THEN <<>>
        ELSE LET j == CHOOSE a \in starts : \A b \in starts : a <= b
             IN  <<SubSeq(t, j + 1, DollarMatchEnd(t, j))>>
                     \o FindAllFrom(t, DollarMatchEnd(t, j) + 1)

\* the list of the captured groups, in text order
potential_totals(draft_text) == FindAllFrom(draft_text, 1)

RECURSIVE DigitsValue(_)
DigitsValue(ds) ==
    IF ds = <<>> THEN 0
    ELSE 10 * DigitsValue(SubSeq(ds, 1, Len(ds) - 1)) + DigitValue(ds[Len(ds)])

\* total_str.replace(',', '')
RemoveCommas(t) == SelectSeq(t, LAMBDA c : c # ",")

\* float(total_str.replace(',', '')) in hundredths; the argument is a match of
\* the pattern above, so it has no fraction or a fraction of two digits
ParseFloat(total_str) ==
    LET s == RemoveCommas(total_str)
        n == Len(s)
    IN  IF n >= 3 /\ s[n - 2] = "."
        THEN 100 * DigitsValue(SubSeq(s, 1, n - 3)) + DigitsValue(SubSeq(s, n - 1, n))
        ELSE 100 * DigitsValue(s)

Abs(x) == IF x < 0 THEN 0 - x ELSE x

(***************************************************************************)
(* Optional values: None is <<>>, a value v is <<v>>.                      *)
(***************************************************************************)
None == <<>>

Some(v) == <<v>>

(***************************************************************************)
(* coach.py: the coaching engine.  Its state is cs = [profiles, history,   *)
(* clock]: agent_profiles, coaching_history and the clock that             *)
(* datetime.now() reads.  dt is what the clock advances between two reads  *)
(* (0 when two reads fall in the same clock tick).                         *)
(***************************************************************************)
SALES_COORDINATOR == "sales_coordinator"

CRITICAL == "critical"
HIGH == "high"
MEDIUM == "medium"
LOW == "low"

\* the guardrails that have an entry in the coach's tables
CoachedGuardrails ==
    {"hallucination_prevention", "pii_protection", "data_access_control",
     "financial_accuracy", "communication_integrity",
     "business_relationship_protection"}

\* profile.violation_history.get(guardrail, 0)
HistoryCount(profile, guardrail) ==
    IF guardrail \in DOMAIN profile.violation_history
    THEN profile.violation_history[guardrail]
    ELSE 0

NewProfile(agent_id, agent_type) ==
    [agent_id |-> agent_id,
     agent_type |-> agent_type,
     learning_level |-> "intermediate",
     violation_history |-> [g \in {} |-> 0],
     improvement_score |-> 80,
     last_coaching |-> None,
     coaching_receptiveness |-> 100,
     preferred_coaching_style |-> "balanced"]

\* a variant of get_or_create_profile that makes a new profile on every call
get_or_create_profile_fresh(profiles, agent_id, agent_type) ==
    [a \in DOMAIN profiles \cup {agent_id} |->
        IF a = agent_id THEN NewProfile(agent_id, agent_type) ELSE profiles[a]]

\* a variant of get_or_create_profile that gives an existing profile the
\* agent type of the violation
get_or_create_profile_retyping(profiles, agent_id, agent_type) ==
    IF agent_id \in DOMAIN profiles
    THEN [profiles EXCEPT ![agent_id].agent_type = agent_type]
    ELSE [a \in DOMAIN profiles \cup {agent_id} |->
             IF a = agent_id THEN NewProfile(agent_id, agent_type) ELSE profiles[a]]

\* the profile map after _get_or_create_profile
get_or_create_profile(profiles, agent_id, agent_type) ==
    IF agent_id \in DOMAIN profiles
    THEN profiles
    ELSE [a \in DOMAIN profiles \cup {agent_id} |->
             IF a = agent_id THEN NewProfile(agent_id, agent_type) ELSE profiles[a]]

analyze_violation(violation, profile) ==
    [guardrail |-> violation.guardrail,
     severity |-> violation.severity,
     is_recurring |-> violation.guardrail \in DOMAIN profile.violation_history,
     count |-> HistoryCount(profile, violation.guardrail)]

\* a variant of ApproachBase that looks the guardrail up and not the agent
\* type
ApproachBaseByGuardrail(guardrail, agent_type) ==
    CASE guardrail = "hallucination_prevention" -> "sales_examples"
      [] guardrail = "pii_protection" -> "data_privacy_examples"
      [] guardrail = "data_access_control" -> "access_control_examples"
      [] guardrail = "financial_accuracy" -> "calculation_examples"
      [] guardrail = "communication_integrity" -> "approval_examples"
      [] guardrail = "business_relationship_protection" -> "relationship_examples"
      [] OTHER -> "default"

\* approach_matrix[guardrail].get(agent_type, "default")
ApproachBase(guardrail, agent_type) ==
    IF guardrail \in CoachedGuardrails /\ agent_type = SALES_COORDINATOR
    THEN CASE guardrail = "hallucination_prevention" -> "sales_examples"
           [] guardrail = "pii_protection" -> "data_privacy_examples"
           [] guardrail = "data_access_control" -> "access_control_examples"
           [] guardrail = "financial_accuracy" -> "calculation_examples"
           [] guardrail = "communication_integrity" -> "approval_examples"
           [] OTHER -> "relationship_examples"
    ELSE "default"

\* the approach string is base + suffix
select_coaching_approach(guardrail, agent_type, learning_level) ==
    [base |-> ApproachBase(guardrail, agent_type),
     suffix |-> IF learning_level = "advanced" THEN "_condensed"
                ELSE IF learning_level = "novice" THEN "_detailed"
                ELSE ""]

explain_why_for_agent(guardrail, agent_type) ==
    IF guardrail \in CoachedGuardrails /\ agent_type = SALES_COORDINATOR
    THEN <<"why", guardrail, agent_type>>
    ELSE <<"This guardrail protects integrity and safety for", agent_type, "agents.">>

extract_principle(guardrail) ==
    IF guardrail \in CoachedGuardrails
    THEN <<"principle", guardrail>>
    ELSE <<"Follow the guardrail consistently.", "">>

\* Part 4 of _generate_coaching: no approach base is a prefix of another,
\* so approach.startswith(base) is equality of the bases
Examples(approach, guardrail) ==
    CASE approach.base = "sales_examples" ->
             IF guardrail = "hallucination_prevention"
             THEN "sales_examples: hallucination_prevention"
             ELSE "See documentation for examples."
      [] approach.base = "data_privacy_examples" ->
             IF guardrail = "pii_protection"
             THEN "data_privacy_examples: pii_protection"
             ELSE "See documentation for examples."
      [] approach.base = "calculation_examples" ->
             IF guardrail = "financial_accuracy"
             THEN "calculation_examples: financial_accuracy"
             ELSE "See documentation for examples."
      [] OTHER -> "Follow the principle above."

\* the keyword tests of _suggest_specific_fix, in their order, on the
\* guardrail names in use
suggest_specific_fix(guardrail) ==
    CASE guardrail = "hallucination_prevention" -> "Verify data against logged catch and scraped price."
      [] guardrail = "pii_protection" -> "Remove all buyer contact information from output."
      [] guardrail = "data_access_control" -> "Check authentication before allowing access."
      [] guardrail = "financial_accuracy" -> "Recalculate: pounds x price_per_lb."
      [] guardrail = "communication_integrity" -> "Mark message as draft."
      [] guardrail = "business_relationship_protection" -> "Check message history for duplicates in last 24 hours."
      [] OTHER -> "Reformulate response to address the guardrail violation."

\* a variant of analyze_pattern that counts the violation being coached
analyze_pattern_counting_this(profile, guardrail) ==
    LET count == HistoryCount(profile, guardrail) + 1
    IN  IF count = 1 THEN [band |-> 1, count |-> 0, human_review |-> FALSE]
        ELSE IF count = 2 THEN [band |-> 2, count |-> 0, human_review |-> FALSE]
        ELSE [band |-> 3, count |-> count, human_review |-> TRUE]

\* the pattern text: band 0 is the empty string
analyze_pattern(profile, guardrail) ==
    LET count == HistoryCount(profile, guardrail)
    IN  IF count = 1 THEN [band |-> 1, count |-> 0, human_review |-> FALSE]
        ELSE IF count = 2 THEN [band |-> 2, count |-> 0, human_review |-> FALSE]
        ELSE IF count >= 3 THEN [band |-> 3, count |-> count, human_review |-> TRUE]
        ELSE [band |-> 0, count |-> 0, human_review |-> FALSE]

\* the coaching text, as the list of its parts; has_pattern says whether the
\* "Pattern Analysis" part was appended
generate_coaching(violation, profile, approach) ==
    LET pattern_awareness == analyze_pattern(profile, violation.guardrail)
    IN  [what_happened |-> violation.what_happened,
         why_matters |-> explain_why_for_agent(violation.guardrail, profile.agent_type),
         principle |-> extract_principle(violation.guardrail),
         examples |-> Examples(approach, violation.guardrail),
         specific_fix |-> suggest_specific_fix(violation.guardrail),
         has_pattern |-> pattern_awareness.band # 0,
         pattern |-> pattern_awareness]

\* a variant of determine_coaching_depth that treats an unknown severity as
\* critical
determine_coaching_depth_strict(severity) ==
    CASE severity = "critical" -> CRITICAL
      [] severity = "high" -> HIGH
      [] severity = "medium" -> MEDIUM
      [] severity = "low" -> LOW
      [] OTHER -> CRITICAL

determine_coaching_depth(severity) ==
    CASE severity = "critical" -> CRITICAL
      [] severity = "high" -> HIGH
      [] severity = "medium" -> MEDIUM
      [] severity = "low" -> LOW
      [] OTHER -> MEDIUM

recommend_followup(profile, analysis) ==
    (IF HistoryCount(profile, analysis.guardrail) > 2
     THEN <<"Review guardrail documentation thoroughly",
            "Request human feedback on next similar request">>
     ELSE <<>>) \o <<"Refer back to this coaching before similar requests">>

\* self.peer_lessons is never written: the lookup finds no guardrail
get_peer_lessons(guardrail, exclude_agent) == ""

\* effectiveness in 1/10000; the products below are exact
predict_effectiveness(profile, violation) ==
    LET e1 == (7000 * (50 + profile.coaching_receptiveness)) \div 100
        e2 == IF profile.learning_level = "novice" THEN (e1 * 8) \div 10
              ELSE IF profile.learning_level = "advanced" THEN (e1 * 12) \div 10
              ELSE e1
        e3 == IF HistoryCount(profile, violation.guardrail) > 3
              THEN (e2 * 6) \div 10 ELSE e2
    IN  IF e3 > 10000 THEN 10000 ELSE IF e3 < 0 THEN 0 ELSE e3

\* a variant of update_profile that counts a guardrail once
update_profile_once(profile, violation, at) ==
    [profile EXCEPT
        !.violation_history =
            [g \in DOMAIN profile.violation_history \cup {violation.guardrail} |->
                IF g = violation.guardrail THEN 1 ELSE profile.violation_history[g]],
        !.last_coaching = Some(at)]

update_profile(profile, violation, at) ==
    [profile EXCEPT
        !.violation_history =
            [g \in DOMAIN profile.violation_history \cup {violation.guardrail} |->
                IF g = violation.guardrail
                THEN HistoryCount(profile, violation.guardrail) + 1
                ELSE profile.violation_history[g]],
        !.last_coaching = Some(at)]

\* coach_agent: [cs |-> the engine state after the call, result |-> the dict
\* it returns].  The clock is read for event_id, for timestamp and for
\* last_coaching.
coach_agent(cs, violation, dt) ==
    LET agent_id == violation.agent_id
        profiles1 == get_or_create_profile(cs.profiles, agent_id, violation.agent_type)
        profile == profiles1[agent_id]
        analysis == analyze_violation(violation, profile)
        coaching_approach == select_coaching_approach(violation.guardrail,
                                 profile.agent_type, profile.learning_level)
        coaching_text == generate_coaching(violation, profile, coaching_approach)
        coaching_level == determine_coaching_depth(violation.severity)
        event == [event_id |-> cs.clock,
                  timestamp |-> cs.clock + dt,
                  agent_id |-> agent_id,
                  agent_type |-> profile.agent_type,
                  guardrail |-> violation.guardrail,
                  severity |-> coaching_level,
                  violation_description |-> violation.what_happened,
                  coaching_delivered |-> coaching_text,
                  coaching_depth |-> coaching_level,
                  agent_response |-> None,
                  improved |-> None,
                  improvement_timeline |-> None]
        updated == update_profile(profile, violation, cs.clock + 2 * dt)
    IN  [cs |-> [profiles |-> [profiles1 EXCEPT ![agent_id] = updated],
                 history |-> Append(cs.history, event),
                 clock |-> cs.clock + 3 * dt],
         result |-> [coaching |-> coaching_text,
                     coaching_level |-> coaching_level,
                     principle |-> extract_principle(violation.guardrail),
                     followup_actions |-> recommend_followup(profile, analysis),
                     effectiveness_predicted |-> predict_effectiveness(updated, violation),
                     peer_lessons |-> get_peer_lessons(violation.guardrail, agent_id),
                     blocked |-> coaching_level = CRITICAL]]

(***************************************************************************)
(* agent.py: FishingAgent.                                                 *)
(***************************************************************************)
AgentId == "fishing_agent_001"

\* _create_violation; what_happened and expected are f-strings: the fixed
\* words and the characters of the interpolated value
create_violation(guardrail, severity, what_happened, expected) ==
    [agent_id |-> AgentId,
     agent_type |-> SALES_COORDINATOR,
     guardrail |-> guardrail,
     severity |-> severity,
     what_happened |-> what_happened,
     expected |-> expected]

Msg(words, arg) == [msg |-> words, arg |-> arg]

\* a variant of Raised in which every check sets blocked = True
RaisedBlocking(violation, blocks) == <<[violation |-> violation, blocks |-> TRUE]>>

\* a violation a check raises, with whether the check sets blocked = True
Raised(violation, blocks) == <<[violation |-> violation, blocks |-> blocks]>>

commitment_words ==
    <<<<"d", "e", "a", "l">>, <<"s", "o", "l", "d">>, <<"m", "e", "e", "t", " ", "m", "e">>, <<"p", "i", "c", "k", "u", "p", " ", "a", "t">>, <<"f", "i", "n", "a", "l", " ", "p", "r", "i", "c", "e">>, <<"a", "g", "r", "e", "e", "d">>>>

\* Guardrail 1: the verified price
CheckPrice(draft_text, price) ==
    IF ~Contains(<<"$">> \o FloatStr(price.price_per_lb), draft_text)
    THEN Raised(create_violation("hallucination_prevention", "critical",
                    Msg("Draft message doesn't contain verified price", FloatStr(price.price_per_lb)),
                    Msg("Message must include exact scraped price", FloatStr(price.price_per_lb))),
                TRUE)
    ELSE <<>>

\* a variant of CheckPounds that never looks for the pounds
CheckPoundsSkipped(draft_text, catch) == <<>>

\* Guardrail 2: the logged pounds
CheckPounds(draft_text, catch) ==
    IF ~Contains(IntStr(catch.pounds), draft_text)
    THEN Raised(create_violation("hallucination_prevention", "critical",
                    Msg("Draft message doesn't contain logged catch amount", FloatStr(catch.pounds)),
                    Msg("Message must include exact logged pounds", FloatStr(catch.pounds))),
                TRUE)
    ELSE <<>>

\* Guardrail 3: the fish type
CheckFishType(draft_text, catch) ==
    IF ~Contains(Lower(catch.fish_type), Lower(draft_text))
    THEN Raised(create_violation("hallucination_prevention", "critical",
                    Msg("Draft message doesn't contain logged fish type", catch.fish_type),
                    Msg("Message must include correct fish type", catch.fish_type)),
                TRUE)
    ELSE <<>>

\* a variant of PiiHits that looks for names only
PiiHitsNamesOnly(draft_text, buyer, all_buyers) ==
    {k \in 1..Len(all_buyers) :
        /\ all_buyers[k].id # buyer.id
        /\ Contains(all_buyers[k].name, draft_text)}

\* the buyers of the list whose name or phone the loop of guardrail 4 finds
\* in the text
PiiHits(draft_text, buyer, all_buyers) ==
    {k \in 1..Len(all_buyers) :
        /\ all_buyers[k].id # buyer.id
        /\ \/ Contains(all_buyers[k].name, draft_text)
           \/ Contains(all_buyers[k].phone, draft_text)}

\* Guardrail 4: one violation for the first such buyer, then break
CheckPii(draft_text, buyer, all_buyers) ==
    LET hits == PiiHits(draft_text, buyer, all_buyers)
    IN  IF all_buyers # <<>> /\ hits # {}
        THEN LET first == CHOOSE k \in hits : \A j \in hits : k <= j
             IN  Raised(create_violation("pii_protection", "critical",
                            Msg("Draft message contains PII of another buyer", all_buyers[first].name),
                            Msg("Message must only contain info relevant to the recipient", <<>>)),
                        TRUE)
        ELSE <<>>

\* any(word in draft_text.lower() for word in commitment_words)
HasCommitmentWord(lowered) ==
    \E k \in 1..Len(commitment_words) : Contains(commitment_words[k], lowered)

\* Guardrail 5: commitment language; it does not set blocked
CheckCommitment(draft_text) ==
    IF HasCommitmentWord(Lower(draft_text))
    THEN Raised(create_violation("communication_integrity", "high",
                    Msg("Draft message contains commitment language that should be handled by fisherman directly", <<>>),
                    Msg("Messages should only inform about availability and price, not commit to deals", <<>>)),
                FALSE)
    ELSE <<>>

\* catch.pounds * price.price_per_lb, in 1/10000
expected_total(catch, price) == catch.pounds * price.price_per_lb

\* a variant of WrongFigure with a tolerance of 10%
WrongFigureLoose(val, catch, price) ==
    /\ val # price.price_per_lb
    /\ 10 * Abs(100 * val - expected_total(catch, price)) > expected_total(catch, price)

\* val != price.price_per_lb and abs(val - expected_total) > expected_total * 0.01,
\* val in hundredths
WrongFigure(val, catch, price) ==
    /\ val # price.price_per_lb
    /\ 100 * Abs(100 * val - expected_total(catch, price)) > expected_total(catch, price)

RECURSIVE CheckFinancialFrom(_, _, _, _)
\* Guardrail 6: one violation for every figure found wrong, in text order
CheckFinancialFrom(totals, k, catch, price) ==
    IF k > Len(totals) THEN <<>>
    ELSE (IF WrongFigure(ParseFloat(totals[k]), catch, price)
          THEN Raised(create_violation("financial_accuracy", "high",
                          Msg("Draft message contains incorrect financial figure",
                              FloatStr(ParseFloat(totals[k]))),
                          Msg("Total should be approximately pounds * price",
                              FloatStr(catch.pounds) \o <<"*">> \o FloatStr(price.price_per_lb))),
                      TRUE)
          ELSE <<>>)
         \o CheckFinancialFrom(totals, k + 1, catch, price)

CheckFinancial(draft_text, catch, price) ==
    CheckFinancialFrom(potential_totals(draft_text), 1, catch, price)

\* the violations the six guardrails raise for a draft, in the order of the
\* checks; no check reads what an earlier check or the coach has written
raised_violations(draft_text, catch, price, buyer, all_buyers) ==
    CheckPrice(draft_text, price)
        \o CheckPounds(draft_text, catch)
        \o CheckFishType(draft_text, catch)
        \o CheckPii(draft_text, buyer, all_buyers)
        \o CheckCommitment(draft_text)
        \o CheckFinancial(draft_text, catch, price)

RECURSIVE CoachEach(_, _, _, _)
\* violations.append(self.coach.coach_agent(violation)) for the raised
\* violations from position k on; acc = [cs, violations]
CoachEach(acc, raised, k, dt) ==
    IF k > Len(raised) THEN acc
    ELSE CoachEach(LET c == coach_agent(acc.cs, raised[k].violation, dt)
                   IN  [cs |-> c.cs, violations |-> Append(acc.violations, c.result)],
                   raised, k + 1, dt)

\* _validate_message_draft: [cs, violations, blocked]
validate_message_draft(cs, draft_text, catch, price, buyer, all_buyers, dt) ==
    LET raised == raised_violations(draft_text, catch, price, buyer, all_buyers)
        coached == CoachEach([cs |-> cs, violations |-> <<>>], raised, 1, dt)
    IN  [cs |-> coached.cs,
         violations |-> coached.violations,
         blocked |-> \E k \in 1..Len(raised) : raised[k].blocks]

\* a variant of recent_messages whose query finds no row
no_recent_messages(msgs, buyer_id, at) == {}

\* the rows the query of the loop finds for a buyer: sent_at is NULL for a
\* draft, and NULL >= x selects nothing
recent_messages(msgs, buyer_id, at) ==
    {k \in 1..Len(msgs) :
        /\ msgs[k].buyer_id = buyer_id
        /\ msgs[k].sent_at # None
        /\ msgs[k].sent_at[1] >= at - HoursWindow}

DraftMessage(buyer, draft_text, catch, price) ==
    [buyer_id |-> buyer.id,
     buyer_name |-> buyer.name,
     message_text |-> draft_text,
     catch_id |-> catch.id,
     fish_type |-> catch.fish_type,
     pounds |-> catch.pounds,
     price_per_lb |-> price.price_per_lb]

\* a variant of OnBlocked that drops the violations of the blocked draft
OnBlockedSilently(g, v) ==
    [cs |-> v.cs, violations |-> g.violations, drafts |-> g.drafts]

\* what generate_buyer_messages does for one buyer when validation blocks
\* the draft: violations.extend(...) and continue
OnBlocked(g, v) ==
    [cs |-> v.cs, violations |-> g.violations \o v.violations, drafts |-> g.drafts]

\* what it does when validation does not block: the draft is appended
OnAccepted(g, v, draft) ==
    [cs |-> v.cs, violations |-> g.violations, drafts |-> Append(g.drafts, draft)]

\* what it does for a recently contacted buyer: the coached violation is
\* appended and the buyer is skipped
OnRecent(g, c) ==
    [cs |-> c.cs, violations |-> Append(g.violations, c.result), drafts |-> g.drafts]

\* the loop's record of one buyer: whether the buyer was skipped as recently
\* contacted, and otherwise what _validate_message_draft returned
Outcome(buyer, skipped, blocked, violations) ==
    [buyer_id |-> buyer.id, skipped |-> skipped, blocked |-> blocked,
     violations |-> violations]

\* the accumulator after one buyer, with the buyer's outcome on record
Logged(step, g, outcome) ==
    [cs |-> step.cs, violations |-> step.violations, drafts |-> step.drafts,
     per_buyer |-> Append(g.per_buyer, outcome)]

\* one pass of the loop body for a buyer who was contacted recently
SkipBuyer(g, buyer, c) ==
    Logged(OnRecent(g, c), g, Outcome(buyer, TRUE, FALSE, <<c.result>>))

\* one pass of the loop body for a buyer whose draft text was validated as v
DraftBuyer(g, buyer, draft_text, catch, price, v) ==
    Logged(IF v.blocked
           THEN OnBlocked(g, v)
           ELSE OnAccepted(g, v, DraftMessage(buyer, draft_text, catch, price)),
           g, Outcome(buyer, FALSE, v.blocked, v.violations))

RECURSIVE BuyerLoop(_, _, _, _, _, _, _, _, _)
\* the for loop over buyers from position k on; g = [cs, violations, drafts,
\* per_buyer]; texts[k] is what _generate_message_text returns for buyers[k]
BuyerLoop(g, k, catch, price, buyers, texts, msgs, at, dt) ==
    IF k > Len(buyers) THEN g
    ELSE BuyerLoop(
             IF recent_messages(msgs, buyers[k].id, at) # {}
             THEN SkipBuyer(g, buyers[k],
                      coach_agent(g.cs,
                          create_violation("business_relationship_protection", "high",
                              Msg("Attempted to contact buyer who was already contacted in last 24 hours", buyers[k].name),
                              Msg("Check message history before contacting buyers", <<>>)),
                          dt))
             ELSE DraftBuyer(g, buyers[k], texts[k], catch, price,
                      validate_message_draft(g.cs, texts[k], catch, price,
                                             buyers[k], buyers, dt)),
             k + 1, catch, price, buyers, texts, msgs, at, dt)

\* a variant of MissingPrice that returns an empty result and coaches nothing
MissingPriceSkipped(cs, dt) ==
    [cs |-> cs,
     ret |-> [drafts |-> <<>>, violations |-> <<>>, blocked |-> FALSE, error |-> ""],
     per_buyer |-> <<>>]

\* the branch of generate_buyer_messages for an absent price
MissingPrice(cs, dt) ==
    LET c == coach_agent(cs,
                 create_violation("hallucination_prevention", "critical",
                     Msg("Attempted to generate messages without verified price data", <<>>),
                     Msg("Current price from cannery scraping or manual entry", <<>>)),
                 dt)
    IN  [cs |-> c.cs,
         ret |-> [drafts |-> <<>>, violations |-> <<c.result>>, blocked |-> TRUE,
                  error |-> "No price data available. Please check cannery prices first."],
         per_buyer |-> <<>>]

\* a variant of BatchResult that blocks a batch without drafts
BatchResultBlockedWhenEmpty(g) ==
    [cs |-> g.cs,
     ret |-> [drafts |-> g.drafts, violations |-> g.violations,
              blocked |-> g.drafts = <<>>],
     per_buyer |-> g.per_buyer]

\* the return after the loop
BatchResult(g) ==
    [cs |-> g.cs,
     ret |-> [drafts |-> g.drafts, violations |-> g.violations, blocked |-> FALSE],
     per_buyer |-> g.per_buyer]

\* generate_buyer_messages: [cs |-> the engine state after the call,
\* ret |-> the dict it returns, per_buyer |-> the loop's record]; price is
\* None or Some(price row)
generate_buyer_messages(cs, catch, price, buyers, texts, msgs, at, dt) ==
    IF price = None
    THEN MissingPrice(cs, dt)
    ELSE BatchResult(BuyerLoop([cs |-> cs, violations |-> <<>>, drafts |-> <<>>,
                                per_buyer |-> <<>>],
                               1, catch, price[1], buyers, texts, msgs, at, dt))

(***************************************************************************)
(* The data of the model: the rows the database can hold and the texts     *)
(* the generation step can return.                                         *)
(***************************************************************************)
Catches ==
    {[id |-> 1, fish_type |-> <<"H", "a", "l", "i", "b", "u", "t">>, pounds |-> 45000],
     [id |-> 2, fish_type |-> <<"C", "r", "a", "b">>, pounds |-> 12050]}

Prices ==
    {[fish_type |-> <<"H", "a", "l", "i", "b", "u", "t">>, price_per_lb |-> 420],
     [fish_type |-> <<"C", "r", "a", "b">>, price_per_lb |-> 1225]}

John == [id |-> 1, name |-> <<"J", "o", "h", "n">>, phone |-> <<"3", "6", "0", "5", "5", "5", "1", "2", "3", "4">>]

Mike == [id |-> 2, name |-> <<"M", "i", "k", "e">>, phone |-> <<"3", "6", "0", "5", "5", "5", "5", "6", "7", "8">>]

AllBuyers == <<John, Mike>>

\* the lists db.query(Buyer) can give: the rows present, in id order
BuyerLists == {<<>>, <<John>>, <<Mike>>, <<John, Mike>>}

\* a float with two decimals, as a generated text may print a price (4.20)
TwoDecimals(x) ==
    NatStr(x \div 100) \o <<".", DigitChars[((x % 100) \div 10) + 1], DigitChars[(x % 10) + 1]>>

\* the fallback of _generate_message_text
TemplateText(catch, price, buyer) ==
    <<"H", "e", "y", " ">> \o buyer.name \o <<",", " ", "g", "o", "t", " ">> \o FloatStr(catch.pounds) \o <<" ", "l", "b", "s", " ", "f", "r", "e", "s", "h", " ">>
        \o catch.fish_type \o <<" ", "t", "o", "d", "a", "y", ".", " ", "C", "a", "n", "n", "e", "r", "y", " ", "b", "u", "y", "i", "n", "g", " ", "a", "t", " ", "$">> \o FloatStr(price.price_per_lb)
        \o <<"/", "l", "b", ".", " ", "I", "n", "t", "e", "r", "e", "s", "t", "e", "d", "?">>

\* the whole dollars of pounds * price
TotalDollars(catch, price) == expected_total(catch, price) \div 10000

\* a text that states the three facts, and the total
CleanText(catch, price, buyer) ==
    <<"H", "e", "y", " ">> \o buyer.name \o <<",", " ">> \o IntStr(catch.pounds) \o <<" ", "l", "b", "s", " ">>
        \o Lower(catch.fish_type) \o <<" ", "a", "t", " ", "$">> \o TwoDecimals(price.price_per_lb)
        \o <<"/", "l", "b", " ", "=", " ", "$">> \o NatStr(TotalDollars(catch, price)) \o <<".", "0", "0">>

\* a text that states the three facts and nothing else
FactsText(catch, price, buyer) ==
    <<"H", "e", "y", " ">> \o buyer.name \o <<",", " ">> \o IntStr(catch.pounds) \o <<" ", "l", "b", "s", " ">>
        \o catch.fish_type \o <<" ", "a", "t", " ", "$">> \o TwoDecimals(price.price_per_lb) \o <<"/", "l", "b">>

\* the other buyer of the table, whom a text for `buyer` may mention
OtherBuyer(buyer) == IF buyer.id = John.id THEN Mike ELSE John

\* the texts response.content[0].text can be for a buyer, and the fallback,
\* by kind
DraftKinds(catch, price, buyer) ==
    LET facts == FactsText(catch, price, buyer)
    IN  <<CleanText(catch, price, buyer),
          TemplateText(catch, price, buyer),
          <<"H", "e", "y", " ">> \o buyer.name \o <<",", " ">> \o IntStr(catch.pounds) \o <<" ", "l", "b", "s", " ">> \o catch.fish_type,
          <<"H", "e", "y", " ">> \o buyer.name \o <<",", " ">> \o IntStr(catch.pounds + 5000) \o <<" ", "l", "b", "s", " ">>
              \o catch.fish_type \o <<" ", "a", "t", " ", "$">> \o TwoDecimals(price.price_per_lb),
          <<"H", "e", "y", " ">> \o buyer.name \o <<",", " ">> \o IntStr(catch.pounds) \o <<" ", "l", "b", "s", " ", "f", "r", "e", "s", "h", " ", "a", "t", " ", "$">>
              \o TwoDecimals(price.price_per_lb),
          facts \o <<".", " ", "D", "e", "a", "l", "?">>,
          facts \o <<" ", "=", " ", "$">> \o NatStr(TotalDollars(catch, price) - 100),
          <<"S", "o", "l", "d", "!", " ">> \o IntStr(catch.pounds) \o <<" ", "l", "b", "s", " ">> \o catch.fish_type
              \o <<" ", "f", "o", "r", " ", "$">> \o NatStr(TotalDollars(catch, price) + 100),
          facts \o <<".", " ", "A", "s", "k", " ">> \o OtherBuyer(buyer).name,
          facts \o <<".", " ", "A", "g", "r", "e", "e", "d", " ", "w", "i", "t", "h", " ">> \o OtherBuyer(buyer).phone>>

RECURSIVE SameForAll(_, _, _, _, _)
\* the first k buyers' texts when the generation step returns texts[j] of
\* DraftKinds for every buyer
SameForAll(catch, price, buyers, j, k) ==
    IF k = 0 THEN <<>>
    ELSE Append(SameForAll(catch, price, buyers, j, k - 1),
                DraftKinds(catch, price, buyers[k])[j])

\* one text for each buyer of the list: the generation step returns the same
\* kind of text for every buyer, or a text of another kind for one buyer and
\* the clean text (the first kind) for the others
TextChoices(catch, price, buyers) ==
    LET n == Len(buyers)
        kinds == 1..Len(DraftKinds(catch, price, AllBuyers[1]))
        same(j) == SameForAll(catch, price, buyers, j, n)
    IN  {same(j) : j \in kinds}
            \cup {[same(1) EXCEPT ![k] = DraftKinds(catch, price, buyers[k])[j]] :
                      j \in kinds, k \in 1..n}

\* db.query(Price).filter(Price.fish_type == catch.fish_type)...first(): the
\* table has one row for each fish type
LatestPrice(catch) == CHOOSE q \in Prices : q.fish_type = catch.fish_type

\* the text choices for every catch and buyer list, under the latest price
GeneratedTexts ==
    [catch \in Catches |->
        [buyers \in BuyerLists |-> TextChoices(catch, LatestPrice(catch), buyers)]]

\* what the clock advances between two reads
ClockSteps == {0, 1}

(***************************************************************************)
(* main.py: the server.  coach and agent are module globals, one for all   *)
(* requests; the messages table is the database.                           *)
(***************************************************************************)
\* a row of the messages table
MessageRow(id, buyer_id, catch_id, message_text, status, sent_at) ==
    [id |-> id, buyer_id |-> buyer_id, catch_id |-> catch_id,
     message_text |-> message_text, status |-> status, sent_at |-> sent_at]

\* the hour at which the server starts
StartHour == 2 * HoursWindow

\* The database outlives the server process.  The tables the model starts
\* from, as earlier contact-buyers and send requests left them: a draft was
\* never sent, a sent message has the hour of its sending.
PersistedTables ==
    LET hal == CHOOSE c \in Catches : c.id = 1
        p == CHOOSE q \in Prices : q.fish_type = hal.fish_type
        row(id, buyer, status, sent_at) ==
            MessageRow(id, buyer.id, hal.id, CleanText(hal, p, buyer), status, sent_at)
    IN  {<<row(1, John, "draft", None), row(2, Mike, "draft", None)>>,
         <<row(1, John, "sent", Some(StartHour - 2)), row(2, Mike, "draft", None)>>,
         <<row(1, John, "sent", Some(StartHour - HoursWindow)),
           row(2, Mike, "sent", Some(StartHour - HoursWindow - 1))>>}

\* the state after the server has started: coach = UniversalCoach()
Init ==
    /\ agent_profiles = [a \in {} |-> 0]
    /\ coaching_history = <<>>
    /\ clock = 0
    /\ messages \in PersistedTables
    /\ now = StartHour
    /\ call = None
    /\ result = None

RECURSIVE SaveDrafts(_, _, _)
\* db.add(Message(..., status="draft")) for every draft of the result
SaveDrafts(msgs, drafts, k) ==
    IF k > Len(drafts) THEN msgs
    ELSE SaveDrafts(Append(msgs, MessageRow(Len(msgs) + 1, drafts[k].buyer_id,
                                            drafts[k].catch_id, drafts[k].message_text,
                                            "draft", None)),
                    drafts, k + 1)

\* POST /api/v1/contact-buyers
contact_buyers(catch, price, buyers, texts, dt) ==
    \E r \in {generate_buyer_messages(
                 [profiles |-> agent_profiles, history |-> coaching_history, clock |-> clock],
                 catch, price, buyers, texts, messages, now, dt)} :
        /\ agent_profiles' = r.cs.profiles
        /\ coaching_history' = r.cs.history
        /\ clock' = r.cs.clock
        /\ call' = Some([catch |-> catch, price |-> price, buyers |-> buyers,
                         texts |-> texts, msgs |-> messages, at |-> now,
                         per_buyer |-> r.per_buyer])
        /\ result' = Some(r.ret)
        /\ messages' = IF r.ret.blocked THEN messages
                       ELSE SaveDrafts(messages, r.ret.drafts, 1)
        /\ UNCHANGED now

ContactBuyers ==
    /\ call = None
    /\ Len(coaching_history) < MaxHistory
    /\ Len(messages) < MaxMessages
    /\ \E catch \in Catches, buyers \in BuyerLists, dt \in ClockSteps :
         \E price \in {None, Some(LatestPrice(catch))} :
           \E texts \in (IF price = None THEN {<<>>} ELSE GeneratedTexts[catch][buyers]) :
             contact_buyers(catch, price, buyers, texts, dt)

\* the handler returns (or raises HTTP 400 when the result is blocked): the
\* request is over, the engine and the database stay as the handler left them
Respond ==
    /\ call # None
    /\ call' = None
    /\ result' = None
    /\ UNCHANGED <<agent_profiles, coaching_history, clock, messages, now>>

Next == ContactBuyers \/ Respond

Spec == Init /\ [][Next]_vars

(***************************************************************************)
(* What a state shows of the request being answered: call[1] is the        *)
(* request with the loop's record, result[1] the dict returned.            *)
(***************************************************************************)
Req == call[1]

Ret == result[1]

\* the request being answered had a price
PricedCall == call # None /\ Req.price # None

\* a coaching result is the one coach_agent returns for this guardrail
IsFor(v, guardrail) == v.principle = extract_principle(guardrail)

\* a coaching result carries the parts of its coaching text
HasCoachingText(v) ==
    /\ v.coaching.what_happened.msg # ""
    /\ v.coaching.why_matters # <<>>
    /\ v.coaching.principle = v.principle
    /\ v.coaching.specific_fix # ""

\* the coaching result is in the violations list of the returned dict
InResult(v) == \E i \in 1..Len(Ret.violations) : Ret.violations[i] = v

\* the positions of the returned drafts for a buyer
DraftsFor(buyer_id) == {i \in 1..Len(Ret.drafts) : Ret.drafts[i].buyer_id = buyer_id}

\* the k-th buyer of the request was not skipped: a text was generated and
\* validated
Validated(k) == ~Req.per_buyer[k].skipped

\* the k-th buyer has a message sent within the trailing 24 hours
ContactedRecently(k) ==
    \E m \in 1..Len(Req.msgs) :
        /\ Req.msgs[m].buyer_id = Req.buyers[k].id
        /\ Req.msgs[m].sent_at # None
        /\ Req.at - Req.msgs[m].sent_at[1] <= HoursWindow

\* a dollar figure of a text is neither the price per pound nor within 1% of
\* pounds times price
FigureOff(total_str) ==
    LET val == ParseFloat(total_str)
        exact == Req.catch.pounds * Req.price[1].price_per_lb
    IN  /\ val # Req.price[1].price_per_lb
        /\ 100 * Abs(100 * val - exact) > exact

\* the text for the k-th buyer names another buyer of the list, or that
\* buyer's phone
NamesAnother(k) ==
    \E j \in 1..Len(Req.buyers) :
        /\ Req.buyers[j].id # Req.buyers[k].id
        /\ \/ Contains(Req.buyers[j].name, Req.texts[k])
           \/ Contains(Req.buyers[j].phone, Req.texts[k])

\* the text for the k-th buyer states the price, the pounds and the fish type
StatesFacts(t) ==
    /\ Contains(<<"$">> \o FloatStr(Req.price[1].price_per_lb), t)
    /\ Contains(IntStr(Req.catch.pounds), t)
    /\ Contains(Lower(Req.catch.fish_type), Lower(t))

\* the guardrails the text for the k-th buyer triggers, read from the text
Triggered(k) ==
    LET t == Req.texts[k]
        totals == potential_totals(t)
    IN  {g \in {"hallucination_prevention"} : ~StatesFacts(t)}
            \cup {g \in {"pii_protection"} : NamesAnother(k)}
            \cup {g \in {"communication_integrity"} : HasCommitmentWord(Lower(t))}
            \cup {g \in {"financial_accuracy"} :
                     \E i \in 1..Len(totals) : FigureOff(totals[i])}

BlockingClass == {"hallucination_prevention", "pii_protection", "financial_accuracy"}

\* C1: a call without a price returns blocked = true, no drafts and exactly
\* one violation, the critical hallucination_prevention one; it appends
\* exactly one coaching event and saves no message.
C1_MissingPriceBlocks ==
    [][(call = None /\ call' # None /\ call'[1].price = None) =>
          /\ result'[1].blocked = TRUE
          /\ result'[1].drafts = <<>>
          /\ Len(result'[1].violations) = 1
          /\ IsFor(result'[1].violations[1], "hallucination_prevention")
          /\ result'[1].violations[1].coaching_level = CRITICAL
          /\ result'[1].violations[1].blocked = TRUE
          /\ Len(coaching_history') = Len(coaching_history) + 1
          /\ coaching_history'[Len(coaching_history')].guardrail = "hallucination_prevention"
          /\ coaching_history'[Len(coaching_history')].severity = CRITICAL
          /\ SubSeq(coaching_history', 1, Len(coaching_history)) = coaching_history
          /\ messages' = messages]_vars

C1_Witness ==
    /\ call # None
    /\ Req.price = None
    /\ Len(Req.buyers) = 2
    /\ Ret.blocked
    /\ Len(coaching_history) = 1

\* C2: every returned draft has a text that contains "$" and the price per
\* pound as printed, the integer pounds of the catch and, whatever the case
\* of the letters, the fish type.
C2_DraftsStateVerifiedFacts ==
    PricedCall =>
        \A i \in 1..Len(Ret.drafts) : StatesFacts(Ret.drafts[i].message_text)

C2_Witness ==
    /\ PricedCall
    /\ Len(Req.buyers) = 2
    /\ Len(Ret.drafts) = 1
    /\ \E k \in 1..2 : Validated(k) /\ ~StatesFacts(Req.texts[k])

\* C3: validation blocks a draft exactly when the text triggers a guardrail
\* of the blocking class, and its violations list has a coached violation
\* for every guardrail the text triggers.
C3_BlockedIffBlockingClass ==
    PricedCall =>
        \A k \in 1..Len(Req.per_buyer) :
            Validated(k) =>
                /\ Req.per_buyer[k].blocked <=> (Triggered(k) \cap BlockingClass # {})
                /\ \A g \in Triggered(k) :
                       \E i \in 1..Len(Req.per_buyer[k].violations) :
                           /\ IsFor(Req.per_buyer[k].violations[i], g)
                           /\ HasCoachingText(Req.per_buyer[k].violations[i])

C3_Witness ==
    /\ PricedCall
    /\ \E k \in 1..Len(Req.per_buyer) :
           /\ Validated(k)
           /\ Cardinality(Triggered(k)) >= 3
           /\ "communication_integrity" \in Triggered(k)
           /\ Req.per_buyer[k].blocked
           /\ Len(Req.per_buyer[k].violations) >= 3

\* C4: a draft that fails the commitment-language check only is kept in
\* drafts, and the returned violations list has the coached
\* communication_integrity violation.
C4_WarningKeptAndReturned ==
    PricedCall =>
        \A k \in 1..Len(Req.per_buyer) :
            (Validated(k) /\ Triggered(k) = {"communication_integrity"}) =>
                /\ DraftsFor(Req.buyers[k].id) # {}
                /\ \E i \in 1..Len(Ret.violations) :
                       IsFor(Ret.violations[i], "communication_integrity")

\* C5: a validated draft is left out of drafts exactly when one of the
\* coaching results returned for it has blocked = true.
C5_ExcludedIffCoachBlocked ==
    PricedCall =>
        \A k \in 1..Len(Req.per_buyer) :
            Validated(k) =>
                ((DraftsFor(Req.buyers[k].id) = {}) <=>
                    \E i \in 1..Len(Req.per_buyer[k].violations) :
                        Req.per_buyer[k].violations[i].blocked)

\* C6: for every dollar figure of a validated text that is not the price
\* per pound, the figure is within 1% of pounds times price, or the draft is
\* not returned and the result has a financial_accuracy violation.
C6_FiguresWithinOnePercent ==
    PricedCall =>
        \A k \in 1..Len(Req.per_buyer) :
            Validated(k) =>
                \A i \in 1..Len(potential_totals(Req.texts[k])) :
                    FigureOff(potential_totals(Req.texts[k])[i]) =>
                        /\ DraftsFor(Req.buyers[k].id) = {}
                        /\ \E j \in 1..Len(Ret.violations) :
                               IsFor(Ret.violations[j], "financial_accuracy")

C6_Witness ==
    /\ PricedCall
    /\ \E k \in 1..Len(Req.per_buyer) :
           /\ Validated(k)
           /\ Triggered(k) = {"financial_accuracy"}
           /\ DraftsFor(Req.buyers[k].id) = {}
    /\ \E k \in 1..Len(Req.per_buyer) :
           /\ Validated(k)
           /\ Len(potential_totals(Req.texts[k])) = 2
           /\ DraftsFor(Req.buyers[k].id) # {}

\* C7: no returned draft contains the name or the phone of another buyer
\* of the list; a validated text that does is not returned and the result
\* has a pii_protection violation.
C7_NoOtherBuyerInDraft ==
    PricedCall =>
        /\ \A i \in 1..Len(Ret.drafts) :
               \A j \in 1..Len(Req.buyers) :
                   Req.buyers[j].id # Ret.drafts[i].buyer_id =>
                       /\ ~Contains(Req.buyers[j].name, Ret.drafts[i].message_text)
                       /\ ~Contains(Req.buyers[j].phone, Ret.drafts[i].message_text)
        /\ \A k \in 1..Len(Req.per_buyer) :
               (Validated(k) /\ NamesAnother(k)) =>
                   /\ DraftsFor(Req.buyers[k].id) = {}
                   /\ \E j \in 1..Len(Ret.violations) :
                          IsFor(Ret.violations[j], "pii_protection")

C7_Witness ==
    /\ PricedCall
    /\ Len(Ret.drafts) = 1
    /\ \E k \in 1..Len(Req.per_buyer) :
           /\ Validated(k)
           /\ Contains(OtherBuyer(Req.buyers[k]).phone, Req.texts[k])
           /\ "hallucination_prevention" \notin Triggered(k)
           /\ "financial_accuracy" \notin Triggered(k)
           /\ DraftsFor(Req.buyers[k].id) = {}

\* C8: a buyer of the list with a message sent within the trailing 24 hours
\* gets one business_relationship_protection violation of depth high and no
\* draft, and every later buyer is still processed.
C8_RecentBuyerSkipped ==
    PricedCall =>
        /\ Len(Req.per_buyer) = Len(Req.buyers)
        /\ Cardinality({i \in 1..Len(Ret.violations) :
                           IsFor(Ret.violations[i], "business_relationship_protection")})
               = Cardinality({k \in 1..Len(Req.buyers) : ContactedRecently(k)})
        /\ \A k \in 1..Len(Req.buyers) :
               ContactedRecently(k) =>
                   /\ Req.per_buyer[k].skipped
                   /\ Len(Req.per_buyer[k].violations) = 1
                   /\ IsFor(Req.per_buyer[k].violations[1], "business_relationship_protection")
                   /\ Req.per_buyer[k].violations[1].coaching_level = HIGH
                   /\ InResult(Req.per_buyer[k].violations[1])
                   /\ DraftsFor(Req.buyers[k].id) = {}
                   /\ \A j \in (k + 1)..Len(Req.buyers) :
                          ~ContactedRecently(j) =>
                              /\ Validated(j)
                              /\ (DraftsFor(Req.buyers[j].id) # {}) <=> ~Req.per_buyer[j].blocked

C8_Witness ==
    /\ PricedCall
    /\ Len(Req.buyers) = 2
    /\ ContactedRecently(1)
    /\ ~ContactedRecently(2)
    /\ \E m \in 1..Len(Req.msgs) :
           Req.msgs[m].sent_at # None /\ Req.at - Req.msgs[m].sent_at[1] = HoursWindow
    /\ Len(Ret.drafts) = 1
    /\ Len(Ret.violations) = 1

\* C9: the returned blocked is true exactly when the call had no price; with
\* a price it is false even when every buyer is skipped or rejected.
C9_BatchBlockedOnlyWithoutPrice ==
    call # None => (Ret.blocked <=> Req.price = None)

C9_Witness ==
    /\ PricedCall
    /\ Len(Req.buyers) = 2
    /\ Req.per_buyer[1].skipped
    /\ Req.per_buyer[2].blocked
    /\ Ret.drafts = <<>>
    /\ ~Ret.blocked

\* C10: with a price, every buyer of the list has exactly one returned
\* draft, or one or more coached violations, each with its coaching text, in
\* the returned violations list.
C10_EveryRefusalExplained ==
    PricedCall =>
        /\ Len(Req.per_buyer) = Len(Req.buyers)
        /\ \A k \in 1..Len(Req.buyers) :
               /\ Req.per_buyer[k].buyer_id = Req.buyers[k].id
               /\ \/ Cardinality(DraftsFor(Req.buyers[k].id)) = 1
                  \/ /\ DraftsFor(Req.buyers[k].id) = {}
                     /\ Req.per_buyer[k].violations # <<>>
                     /\ \A i \in 1..Len(Req.per_buyer[k].violations) :
                            /\ InResult(Req.per_buyer[k].violations[i])
                            /\ HasCoachingText(Req.per_buyer[k].violations[i])

C10_Witness ==
    /\ PricedCall
    /\ Len(Req.buyers) = 2
    /\ Validated(1) /\ Validated(2)
    /\ Req.per_buyer[1].blocked
    /\ Len(Req.per_buyer[1].violations) >= 2
    /\ DraftsFor(Req.buyers[2].id) # {}

\* C11: when the generation step falls back to the template, a single buyer
\* who was not contacted in the last 24 hours gets exactly one draft, the
\* template text, and the result is not blocked.
C11_TemplateDraftAccepted ==
    PricedCall =>
        ((/\ Len(Req.buyers) = 1
          /\ ~ContactedRecently(1)
          /\ Req.texts[1] = TemplateText(Req.catch, Req.price[1], Req.buyers[1])) =>
             /\ ~Ret.blocked
             /\ Len(Ret.drafts) = 1
             /\ Ret.drafts[1].buyer_id = Req.buyers[1].id
             /\ Ret.drafts[1].message_text = Req.texts[1])

(***************************************************************************)
(* agent.py: validate_catch_log and validate_data_access, called on the    *)
(* agent with the engine cs; each returns [cs, ret].                       *)
(***************************************************************************)
\* the engine as the state holds it
EngineState ==
    [profiles |-> agent_profiles, history |-> coaching_history, clock |-> clock]

\* str() of a float held in hundredths, of either sign
SignedFloatStr(x) == IF x < 0 THEN <<"-">> \o FloatStr(0 - x) ELSE FloatStr(x)

valid_fish_types ==
    <<<<"C", "r", "a", "b">>, <<"S", "a", "l", "m", "o", "n">>,
      <<"H", "a", "l", "i", "b", "u", "t">>, <<"O", "t", "h", "e", "r">>>>

\* pounds > 10000, in hundredths
SanityPounds == 1000000

\* fish_type not in valid_fish_types
CheckValidFishType(fish_type) ==
    IF ~(\E k \in 1..Len(valid_fish_types) : valid_fish_types[k] = fish_type)
    THEN Raised(create_violation("data_integrity", "high",
                    Msg("Invalid fish type", fish_type),
                    Msg("Must be one of: Crab, Salmon, Halibut, Other", <<>>)),
                TRUE)
    ELSE <<>>

\* pounds <= 0
CheckPositivePounds(pounds) ==
    IF pounds <= 0
    THEN Raised(create_violation("data_integrity", "high",
                    Msg("Invalid pounds value", SignedFloatStr(pounds)),
                    Msg("Pounds must be greater than 0", <<>>)),
                TRUE)
    ELSE <<>>

\* a variant of CheckSanePounds that warns from 10000 lbs on
CheckSanePoundsInclusive(pounds) ==
    IF pounds >= SanityPounds
    THEN Raised(create_violation("data_integrity", "medium",
                    Msg("Unusually high catch", SignedFloatStr(pounds)),
                    Msg("Double-check if this amount is correct", <<>>)),
                FALSE)
    ELSE <<>>

\* pounds > 10000: a warning, it does not set blocked
CheckSanePounds(pounds) ==
    IF pounds > SanityPounds
    THEN Raised(create_violation("data_integrity", "medium",
                    Msg("Unusually high catch", SignedFloatStr(pounds)),
                    Msg("Double-check if this amount is correct", <<>>)),
                FALSE)
    ELSE <<>>

\* validate_catch_log
validate_catch_log(cs, fish_type, pounds, dt) ==
    LET raised == CheckValidFishType(fish_type) \o CheckPositivePounds(pounds)
                      \o CheckSanePounds(pounds)
        coached == CoachEach([cs |-> cs, violations |-> <<>>], raised, 1, dt)
    IN  [cs |-> coached.cs,
         ret |-> [blocked |-> \E k \in 1..Len(raised) : raised[k].blocks,
                  violations |-> coached.violations]]

\* a variant of validate_data_access that has the coach open a profile for
\* the agent on every call
validate_data_access_profiled(cs, user_authenticated, resource, dt) ==
    LET c == coach_agent(cs,
                 create_violation("data_access_control", "critical",
                     Msg("Unauthorized access attempt to", resource),
                     Msg("User must be authenticated to access data", <<>>)),
                 dt)
    IN  IF ~user_authenticated
        THEN [cs |-> c.cs, ret |-> [blocked |-> TRUE, violations |-> <<c.result>>]]
        ELSE [cs |-> [cs EXCEPT !.profiles =
                         get_or_create_profile(cs.profiles, AgentId, SALES_COORDINATOR)],
              ret |-> [blocked |-> FALSE, violations |-> <<>>]]

\* validate_data_access
validate_data_access(cs, user_authenticated, resource, dt) ==
    IF ~user_authenticated
    THEN LET c == coach_agent(cs,
                      create_violation("data_access_control", "critical",
                          Msg("Unauthorized access attempt to", resource),
                          Msg("User must be authenticated to access data", <<>>)),
                      dt)
         IN  [cs |-> c.cs, ret |-> [blocked |-> TRUE, violations |-> <<c.result>>]]
    ELSE [cs |-> cs, ret |-> [blocked |-> FALSE, violations |-> <<>>]]

(***************************************************************************)
(* The agent's two validators as operations on a server whose database is  *)
(* empty.                                                                  *)
(***************************************************************************)
MaxCoached == 2

\* the fish types a caller may pass: a valid one, one in the wrong case and
\* one outside the list
FishTypeInputs ==
    {<<"H", "a", "l", "i", "b", "u", "t">>, <<"h", "a", "l", "i", "b", "u", "t">>,
     <<"T", "u", "n", "a">>}

\* the pounds a caller may pass, in hundredths: -5, 0, 450, 10000 and 15000
PoundsInputs == {0 - 500, 0, 45000, SanityPounds, 1500000}

ResourceInputs == {"sales history", "buyers"}

\* the state after the server has started on an empty database
InitEmpty ==
    /\ agent_profiles = [a \in {} |-> 0]
    /\ coaching_history = <<>>
    /\ clock = 0
    /\ messages = <<>>
    /\ now = StartHour
    /\ call = None
    /\ result = None

\* the engine after an operation
SetEngine(cs) ==
    /\ agent_profiles' = cs.profiles
    /\ coaching_history' = cs.history
    /\ clock' = cs.clock

ValidateCatchLog ==
    /\ Len(coaching_history) < MaxCoached
    /\ \E fish_type \in FishTypeInputs, pounds \in PoundsInputs, dt \in ClockSteps :
         \E r \in {validate_catch_log(EngineState, fish_type, pounds, dt)} :
            /\ SetEngine(r.cs)
            /\ call' = Some([op |-> "validate_catch_log", fish_type |-> fish_type,
                             pounds |-> pounds])
            /\ result' = Some(r.ret)
            /\ UNCHANGED <<messages, now>>

ValidateDataAccess ==
    /\ Len(coaching_history) < MaxCoached
    /\ \E user_authenticated \in BOOLEAN, resource \in ResourceInputs, dt \in ClockSteps :
         \E r \in {validate_data_access(EngineState, user_authenticated, resource, dt)} :
            /\ SetEngine(r.cs)
            /\ call' = Some([op |-> "validate_data_access",
                             user_authenticated |-> user_authenticated,
                             resource |-> resource])
            /\ result' = Some(r.ret)
            /\ UNCHANGED <<messages, now>>

NextAgent == ValidateCatchLog \/ ValidateDataAccess

AgentSpec == InitEmpty /\ [][NextAgent]_vars

\* the last Len(Ret.violations) events of the log: those the operation
\* being answered appended
AppendedEvents ==
    SubSeq(coaching_history,
           Len(coaching_history) - Len(Ret.violations) + 1, Len(coaching_history))

\* the event and the coaching result at position i of an operation are for
\* this guardrail at this depth
CoachedAs(i, guardrail, depth) ==
    /\ AppendedEvents[i].guardrail = guardrail
    /\ AppendedEvents[i].coaching_depth = depth
    /\ Ret.violations[i].coaching_level = depth
    /\ IsFor(Ret.violations[i], guardrail)

\* C12: validate_catch_log blocks exactly when the fish type is not one of
\* Crab, Salmon, Halibut, Other or pounds <= 0; each of the two gives one
\* data_integrity violation of depth high, pounds > 10000 gives one of depth
\* medium that does not block, and nothing else is raised.
C12_CatchLogValidation ==
    (call # None /\ Req.op = "validate_catch_log") =>
        LET bad_type == Req.fish_type \notin
                            {<<"C", "r", "a", "b">>, <<"S", "a", "l", "m", "o", "n">>,
                             <<"H", "a", "l", "i", "b", "u", "t">>, <<"O", "t", "h", "e", "r">>}
            not_positive == Req.pounds <= 0
            huge == Req.pounds > 1000000
            n_high == (IF bad_type THEN 1 ELSE 0) + (IF not_positive THEN 1 ELSE 0)
            n == n_high + (IF huge THEN 1 ELSE 0)
        IN  /\ Ret.blocked <=> (bad_type \/ not_positive)
            /\ Len(Ret.violations) = n
            /\ Len(coaching_history) >= n
            /\ \A i \in 1..n_high : CoachedAs(i, "data_integrity", HIGH)
            /\ \A i \in (n_high + 1)..n : CoachedAs(i, "data_integrity", MEDIUM)

C12_Witness ==
    /\ call # None
    /\ Req.op = "validate_catch_log"
    /\ Req.pounds = 1500000
    /\ Req.fish_type = <<"H", "a", "l", "i", "b", "u", "t">>
    /\ ~Ret.blocked
    /\ Len(Ret.violations) = 1
    /\ Len(coaching_history) = 2

\* C13: validate_data_access for an unauthenticated caller blocks with one
\* critical data_access_control violation whatever the resource; for an
\* authenticated caller it returns blocked = false and no violations and
\* leaves the profiles, the event log and the clock as they were.
C13_DataAccessValidation ==
    [][(call' # None /\ call'[1].op = "validate_data_access") =>
          IF call'[1].user_authenticated
          THEN /\ result'[1] = [blocked |-> FALSE, violations |-> <<>>]
               /\ agent_profiles' = agent_profiles
               /\ coaching_history' = coaching_history
               /\ clock' = clock
          ELSE /\ result'[1].blocked = TRUE
               /\ Len(result'[1].violations) = 1
               /\ IsFor(result'[1].violations[1], "data_access_control")
               /\ result'[1].violations[1].coaching_level = CRITICAL
               /\ result'[1].violations[1].blocked = TRUE
               /\ Len(coaching_history') = Len(coaching_history) + 1
               /\ coaching_history'[Len(coaching_history')].guardrail = "data_access_control"
               /\ coaching_history'[Len(coaching_history')].coaching_depth = CRITICAL]_vars

C13_Witness ==
    /\ call # None
    /\ Req.op = "validate_data_access"
    /\ Req.user_authenticated
    /\ Req.resource = "sales history"
    /\ Len(coaching_history) = 1
    /\ ~Ret.blocked

(***************************************************************************)
(* coach.py: coach_agent as the operation the engine exposes, called with  *)
(* violations of two agents.                                               *)
(***************************************************************************)
MaxEvents == 4

RESEARCHER == "researcher"

ResearchAgentId == "research_agent_001"

\* a violation dict with all its fields
Violation(agent_id, agent_type, guardrail, severity) ==
    [agent_id |-> agent_id,
     agent_type |-> agent_type,
     guardrail |-> guardrail,
     severity |-> severity,
     what_happened |-> Msg("what happened", <<>>),
     expected |-> Msg("expected", <<>>)]

\* the violations callers pass: the four known severities and an unknown
\* one, two guardrails of one agent, and a second agent
ViolationInputs ==
    {Violation(AgentId, SALES_COORDINATOR, "hallucination_prevention", "critical"),
     Violation(AgentId, SALES_COORDINATOR, "hallucination_prevention", "urgent"),
     Violation(AgentId, SALES_COORDINATOR, "financial_accuracy", "high"),
     Violation(AgentId, SALES_COORDINATOR, "financial_accuracy", "medium"),
     Violation(ResearchAgentId, RESEARCHER, "hallucination_prevention", "low")}

CoachAgent ==
    /\ Len(coaching_history) < MaxEvents
    /\ \E violation \in ViolationInputs, dt \in ClockSteps :
         \E c \in {coach_agent(EngineState, violation, dt)} :
            /\ SetEngine(c.cs)
            /\ call' = Some([op |-> "coach_agent", violation |-> violation])
            /\ result' = Some(c.result)
            /\ UNCHANGED <<messages, now>>

NextCoach == CoachAgent

CoachSpec == InitEmpty /\ [][NextCoach]_vars

\* the agent ids and guardrails in use
AgentIds == {AgentId, ResearchAgentId}

GuardrailNames == CoachedGuardrails \cup {"data_integrity"}

\* the count a profile map holds for an agent and a guardrail, 0 without a
\* profile or an entry
CountIn(profiles, agent_id, guardrail) ==
    IF agent_id \in DOMAIN profiles
    THEN HistoryCount(profiles[agent_id], guardrail)
    ELSE 0

\* the number of events of a log for an agent and a guardrail
EventsIn(history, agent_id, guardrail) ==
    Cardinality({i \in 1..Len(history) :
                    history[i].agent_id = agent_id /\ history[i].guardrail = guardrail})

\* the request being answered is a coach call
CoachCall == call # None /\ Req.op = "coach_agent"

\* C14: a coach call raises the calling agent's count for the violation's
\* guardrail by exactly 1, identical violations included, and changes no
\* other count and no other agent's profile; every count equals the number
\* of coach calls made for its agent and guardrail.
C14_CountIncrementsByOne ==
    [][(call' # None /\ call'[1].op = "coach_agent") =>
          LET v == call'[1].violation
          IN  /\ \A a \in AgentIds, g \in GuardrailNames :
                     /\ CountIn(agent_profiles', a, g)
                            = CountIn(agent_profiles, a, g)
                                  + (IF a = v.agent_id /\ g = v.guardrail THEN 1 ELSE 0)
                     /\ CountIn(agent_profiles', a, g) = EventsIn(coaching_history', a, g)
              /\ DOMAIN agent_profiles' = DOMAIN agent_profiles \cup {v.agent_id}
              /\ \A a \in DOMAIN agent_profiles :
                     a # v.agent_id => agent_profiles'[a] = agent_profiles[a]
              /\ DOMAIN agent_profiles'[v.agent_id].violation_history
                     \subseteq GuardrailNames]_vars

C14_Witness ==
    /\ CoachCall
    /\ Len(coaching_history) = 4
    /\ coaching_history[1].guardrail = coaching_history[2].guardrail
    /\ coaching_history[1].violation_description = coaching_history[2].violation_description
    /\ coaching_history[1].severity = coaching_history[2].severity
    /\ CountIn(agent_profiles, AgentId, "hallucination_prevention") = 2
    /\ CountIn(agent_profiles, AgentId, "financial_accuracy") = 1
    /\ CountIn(agent_profiles, ResearchAgentId, "hallucination_prevention") = 1

\* C15: for an agent and a guardrail, the coaching text of the 3rd coach
\* call and of every later one has the human-review phrase, and the text of
\* the 1st call has not.  The number of the call is the count after it.
C15_ThirdCallEscalates ==
    CoachCall =>
        LET nth == CountIn(agent_profiles, Req.violation.agent_id, Req.violation.guardrail)
        IN  /\ nth >= 3 => (Ret.coaching.has_pattern /\ Ret.coaching.pattern.human_review)
            /\ nth = 1 => ~(Ret.coaching.has_pattern /\ Ret.coaching.pattern.human_review)

\* C16: the coaching text has a pattern analysis part exactly when the count
\* before the call is at least 1; the count before the call picks the
\* wording: 1 the neutral notice, 2 the focus note, 3 or more the warning
\* that names that count and mentions human review.
C16_PatternByPriorCount ==
    [][(call' # None /\ call'[1].op = "coach_agent") =>
          LET prior == CountIn(agent_profiles, call'[1].violation.agent_id,
                               call'[1].violation.guardrail)
              text == result'[1].coaching
          IN  /\ text.has_pattern <=> prior >= 1
              /\ prior = 0 => text.pattern.band = 0
              /\ prior = 1 => (text.pattern.band = 1 /\ ~text.pattern.human_review)
              /\ prior = 2 => (text.pattern.band = 2 /\ ~text.pattern.human_review)
              /\ prior >= 3 => /\ text.pattern.band = 3
                               /\ text.pattern.count = prior
                               /\ text.pattern.human_review
              /\ coaching_history'[Len(coaching_history')].coaching_delivered = text]_vars

C16_Witness ==
    /\ CoachCall
    /\ Ret.coaching.has_pattern
    /\ Ret.coaching.pattern.band = 3
    /\ Ret.coaching.pattern.count = 3
    /\ CountIn(agent_profiles, Req.violation.agent_id, Req.violation.guardrail) = 4

\* C17: the depth is critical, high, medium or low for the severity of that
\* name and medium for any other severity, whatever the profile; blocked is
\* true exactly at depth critical; the event logged has the same depth.
C17_DepthBySeverity ==
    CoachCall =>
        LET severity == Req.violation.severity
            depth == IF severity \in {"critical", "high", "medium", "low"}
                     THEN severity ELSE "medium"
            event == coaching_history[Len(coaching_history)]
        IN  /\ Ret.coaching_level = depth
            /\ Ret.blocked <=> (depth = "critical")
            /\ event.severity = depth
            /\ event.coaching_depth = depth
            /\ event.guardrail = Req.violation.guardrail
            /\ event.agent_id = Req.violation.agent_id

C17_Witness ==
    /\ CoachCall
    /\ Req.violation.severity = "urgent"
    /\ Ret.coaching_level = MEDIUM
    /\ ~Ret.blocked
    /\ Len(coaching_history) = 3
    /\ coaching_history[1].severity = CRITICAL
    /\ coaching_history[2].severity = LOW

\* C18: the predicted effectiveness is 0.7 times (0.5 + receptiveness),
\* times 0.8 for a novice or 1.2 for an advanced agent, times 0.6 exactly
\* when the count before the call exceeds 3, clamped to [0, 1].  In 1/10000.
C18_EffectivenessByPriorCount ==
    [][(call' # None /\ call'[1].op = "coach_agent") =>
          LET v == call'[1].violation
              prior == CountIn(agent_profiles, v.agent_id, v.guardrail)
              profile == agent_profiles'[v.agent_id]
              e1 == (7000 * (50 + profile.coaching_receptiveness)) \div 100
              e2 == IF profile.learning_level = "novice" THEN (e1 * 8) \div 10
                    ELSE IF profile.learning_level = "advanced" THEN (e1 * 12) \div 10
                    ELSE e1
              e3 == IF prior > 3 THEN (e2 * 6) \div 10 ELSE e2
              clamped == IF e3 > 10000 THEN 10000 ELSE IF e3 < 0 THEN 0 ELSE e3
          IN  /\ result'[1].effectiveness_predicted = clamped
              /\ result'[1].effectiveness_predicted \in 0..10000]_vars

(***************************************************************************)
(* coach.py: coach_agent and record_coaching_outcome on one engine.        *)
(***************************************************************************)
MaxLogged == 2

RECURSIVE FirstWithId(_, _, _)
\* the position of the first event from k on whose event_id is coaching_id,
\* 0 if there is none: the loop of record_coaching_outcome up to its break
FirstWithId(history, coaching_id, k) ==
    IF k > Len(history) THEN 0
    ELSE IF history[k].event_id = coaching_id THEN k
    ELSE FirstWithId(history, coaching_id, k + 1)

\* a variant of record_coaching_outcome that also marks the event's depth
record_coaching_outcome_marking(history, coaching_id, improved, improvement_timeline) ==
    LET k == FirstWithId(history, coaching_id, 1)
    IN  IF k = 0 THEN history
        ELSE [history EXCEPT ![k].improved = Some(improved),
                             ![k].improvement_timeline = improvement_timeline,
                             ![k].coaching_depth = "resolved"]

\* a variant of record_coaching_outcome that takes the event off the log
record_coaching_outcome_pruning(history, coaching_id, improved, improvement_timeline) ==
    LET k == FirstWithId(history, coaching_id, 1)
    IN  IF k = 0 THEN history
        ELSE SubSeq(history, 1, k - 1) \o SubSeq(history, k + 1, Len(history))

\* record_coaching_outcome: the log after the call
record_coaching_outcome(history, coaching_id, improved, improvement_timeline) ==
    LET k == FirstWithId(history, coaching_id, 1)
    IN  IF k = 0 THEN history
        ELSE [history EXCEPT ![k].improved = Some(improved),
                             ![k].improvement_timeline = improvement_timeline]

\* the violations callers pass here: one agent, two guardrails
OutcomeViolations ==
    {Violation(AgentId, SALES_COORDINATOR, "hallucination_prevention", "critical"),
     Violation(AgentId, SALES_COORDINATOR, "financial_accuracy", "high")}

\* an event id that no event has: the clock is never negative
UnknownId == 0 - 1

\* the ids a caller may pass: those issued so far and an unknown one
IdInputs == {coaching_history[i].event_id : i \in 1..Len(coaching_history)} \cup {UnknownId}

\* improvement_timeline: the default None, or a number of requests
TimelineInputs == {None, Some(2)}

CoachThenRecord ==
    /\ Len(coaching_history) < MaxLogged
    /\ \E violation \in OutcomeViolations, dt \in ClockSteps :
         \E c \in {coach_agent(EngineState, violation, dt)} :
            /\ SetEngine(c.cs)
            /\ call' = Some([op |-> "coach_agent", violation |-> violation])
            /\ result' = Some(c.result)
            /\ UNCHANGED <<messages, now>>

RecordCoachingOutcome ==
    \E coaching_id \in IdInputs, improved \in BOOLEAN,
       improvement_timeline \in TimelineInputs :
        /\ coaching_history' = record_coaching_outcome(coaching_history, coaching_id,
                                                       improved, improvement_timeline)
        /\ call' = Some([op |-> "record_coaching_outcome", coaching_id |-> coaching_id,
                         improved |-> improved,
                         improvement_timeline |-> improvement_timeline])
        /\ result' = None
        /\ UNCHANGED <<agent_profiles, clock, messages, now>>

NextOutcome == CoachThenRecord \/ RecordCoachingOutcome

OutcomeSpec == InitEmpty /\ [][NextOutcome]_vars

\* the fields of an event that are not outcome fields
Described(event) ==
    [event_id |-> event.event_id,
     timestamp |-> event.timestamp,
     agent_id |-> event.agent_id,
     agent_type |-> event.agent_type,
     guardrail |-> event.guardrail,
     severity |-> event.severity,
     violation_description |-> event.violation_description,
     coaching_delivered |-> event.coaching_delivered,
     coaching_depth |-> event.coaching_depth]

\* the outcome fields of an event
OutcomeOf(event) ==
    [agent_response |-> event.agent_response,
     improved |-> event.improved,
     improvement_timeline |-> event.improvement_timeline]

NoOutcome == [agent_response |-> None, improved |-> None, improvement_timeline |-> None]

\* C19: the log is append-only.  A coach call appends exactly one event at
\* the end and leaves the earlier events as they were; no step shortens or
\* reorders the log or changes an event's id, agent, guardrail, depth,
\* description or coaching text; a record_coaching_outcome call changes
\* outcome fields only.
C19_LogAppendOnly ==
    [][/\ Len(coaching_history') >= Len(coaching_history)
       /\ \A i \in 1..Len(coaching_history) :
              Described(coaching_history'[i]) = Described(coaching_history[i])
       /\ (call' # None /\ call'[1].op = "coach_agent") =>
              /\ Len(coaching_history') = Len(coaching_history) + 1
              /\ SubSeq(coaching_history', 1, Len(coaching_history)) = coaching_history
              /\ coaching_history'[Len(coaching_history')].guardrail
                     = call'[1].violation.guardrail
              /\ coaching_history'[Len(coaching_history')].coaching_delivered
                     = result'[1].coaching
       /\ (call' # None /\ call'[1].op = "record_coaching_outcome") =>
              Len(coaching_history') = Len(coaching_history)]_vars

C19_Witness ==
    /\ call # None
    /\ Req.op = "record_coaching_outcome"
    /\ Len(coaching_history) = 2
    /\ coaching_history[1].improved = Some(TRUE)
    /\ coaching_history[2].improved = Some(FALSE)
    /\ coaching_history[2].improvement_timeline = Some(2)

\* C20: the outcome fields of an event are null when the coach call appends
\* it and stay null until record_coaching_outcome is called with its id;
\* that call sets improved and improvement_timeline of the event with that
\* id and changes no other event; with an id that is not in the log it
\* changes nothing, and so does the same call made again.
C20_OutcomeBackfilledById ==
    [][/\ (call' # None /\ call'[1].op = "coach_agent") =>
              OutcomeOf(coaching_history'[Len(coaching_history')]) = NoOutcome
       /\ \A i \in 1..Len(coaching_history) :
              OutcomeOf(coaching_history'[i]) # OutcomeOf(coaching_history[i]) =>
                  /\ call' # None
                  /\ call'[1].op = "record_coaching_outcome"
                  /\ call'[1].coaching_id = coaching_history[i].event_id
       /\ (call' # None /\ call'[1].op = "record_coaching_outcome") =>
              /\ \A i \in 1..Len(coaching_history) :
                     IF coaching_history[i].event_id = call'[1].coaching_id
                     THEN /\ coaching_history'[i].improved = Some(call'[1].improved)
                          /\ coaching_history'[i].improvement_timeline
                                 = call'[1].improvement_timeline
                          /\ coaching_history'[i].agent_response
                                 = coaching_history[i].agent_response
                     ELSE coaching_history'[i] = coaching_history[i]
              /\ (call'[1].coaching_id = UnknownId) => coaching_history' = coaching_history
              /\ record_coaching_outcome(coaching_history', call'[1].coaching_id,
                     call'[1].improved, call'[1].improvement_timeline) = coaching_history'
              /\ UNCHANGED <<agent_profiles, clock>>]_vars

\* C21: no two events of the log have the same event_id, whatever clock
\* values the coach calls that appended them read.
C21_EventIdsUnique ==
    \A i, j \in 1..Len(coaching_history) :
        i # j => coaching_history[i].event_id # coaching_history[j].event_id

(***************************************************************************)
(* coach.py: coach_agent called with any dict.  violation[key] raises      *)
(* KeyError when the dict has no such key, and the call ends there with    *)
(* whatever it has written so far.                                         *)
(***************************************************************************)
\* the fields of a violation dict
ViolationFields ==
    {"agent_id", "agent_type", "guardrail", "severity", "what_happened", "expected"}

\* the keys coach_agent reads with violation[key], in the order of the first
\* such read of each: lines 82, 83, 451, 196, 104.  Line 452 reads severity
\* with .get and "expected" is read nowhere.
ReadOrder == <<"agent_id", "agent_type", "guardrail", "what_happened", "severity">>

\* the first key of ReadOrder that the dict lacks, None if it has them all
FirstMissing(violation) ==
    LET missing == {k \in 1..Len(ReadOrder) : ReadOrder[k] \notin DOMAIN violation}
    IN  IF missing = {} THEN None
        ELSE Some(ReadOrder[CHOOSE k \in missing : \A j \in missing : k <= j])

\* what the caller gets instead of a result when the call raises
KeyError(key) == [raised |-> "KeyError", key |-> key]

\* coach_agent on any dict: [cs |-> the engine state after the call, result
\* |-> the dict returned or the KeyError raised].  The profile is got or
\* created at line 83, after the reads of agent_id and agent_type and before
\* every other read; the event is appended and the count raised at 140-141,
\* after all reads.
call_coach_agent(cs, violation, dt) ==
    LET missing == FirstMissing(violation)
    IN  IF missing = None
        THEN coach_agent(cs, violation, dt)
        ELSE IF missing[1] \in {"agent_id", "agent_type"}
        THEN [cs |-> cs, result |-> KeyError(missing[1])]
        ELSE [cs |-> [cs EXCEPT !.profiles =
                         get_or_create_profile(cs.profiles, violation.agent_id,
                                               violation.agent_type)],
              result |-> KeyError(missing[1])]

\* the call being answered raised
CallRaised == call # None /\ result # None /\ "raised" \in DOMAIN result[1]

(***************************************************************************)
(* coach.py: the engine over its life: coach_agent for violations inside   *)
(* and outside the coach's tables, and record_coaching_outcome.  The calls *)
(* of this specification read distinct clock values.                       *)
(***************************************************************************)
MaxEngineEvents == 4

\* a violation of the tables; one that carries another agent type for the
\* same agent id; one whose guardrail, agent type and severity are all
\* outside the tables
EngineViolations ==
    {Violation(AgentId, SALES_COORDINATOR, "hallucination_prevention", "critical"),
     Violation(AgentId, RESEARCHER, "hallucination_prevention", "low"),
     Violation(ResearchAgentId, RESEARCHER, "data_integrity", "urgent")}

CoachOnEngine ==
    /\ Len(coaching_history) < MaxEngineEvents
    /\ \E violation \in EngineViolations, dt \in ClockSteps \ {0} :
         \E c \in {call_coach_agent(EngineState, violation, dt)} :
            /\ SetEngine(c.cs)
            /\ call' = Some([op |-> "coach_agent", violation |-> violation])
            /\ result' = Some(c.result)
            /\ UNCHANGED <<messages, now>>

\* record_coaching_outcome reporting an improvement, improvement_timeline
\* left at its default
RecordOnEngine ==
    \E coaching_id \in IdInputs, improved \in {TRUE} :
        /\ coaching_history' = record_coaching_outcome(coaching_history, coaching_id,
                                                       improved, None)
        /\ call' = Some([op |-> "record_coaching_outcome", coaching_id |-> coaching_id,
                         improved |-> improved, improvement_timeline |-> None])
        /\ result' = None
        /\ UNCHANGED <<agent_profiles, clock, messages, now>>

NextEngine == CoachOnEngine \/ RecordOnEngine

EngineSpec == InitEmpty /\ [][NextEngine]_vars

\* the events of a log for an agent id
EventsOf(history, agent_id) == {i \in 1..Len(history) : history[i].agent_id = agent_id}

\* C22: a profile exists for an agent id exactly when a coach call was made
\* for it.  The first call for an id creates the profile with learning level
\* intermediate, receptiveness 1.0 and an empty violation history (which the
\* same call then raises to 1 for its guardrail); a later call keeps the
\* profile and every field of it but the count it raises and the coaching
\* time; no step removes a profile or lowers a count.
C22_ProfileLifecycle ==
    [][/\ DOMAIN agent_profiles \subseteq DOMAIN agent_profiles'
       /\ \A a \in DOMAIN agent_profiles, g \in GuardrailNames :
              CountIn(agent_profiles', a, g) >= CountIn(agent_profiles, a, g)
       /\ \A a \in AgentIds :
              a \in DOMAIN agent_profiles' <=> EventsOf(coaching_history', a) # {}
       /\ (call' # None /\ call'[1].op = "record_coaching_outcome") =>
              agent_profiles' = agent_profiles
       /\ (call' # None /\ call'[1].op = "coach_agent") =>
              LET v == call'[1].violation
                  after == agent_profiles'[v.agent_id]
              IN  IF v.agent_id \in DOMAIN agent_profiles
                  THEN LET before == agent_profiles[v.agent_id]
                       IN  /\ after = [before EXCEPT
                                          !.violation_history = after.violation_history,
                                          !.last_coaching = after.last_coaching]
                           /\ DOMAIN before.violation_history
                                  \subseteq DOMAIN after.violation_history
                           /\ HistoryCount(after, v.guardrail)
                                  = HistoryCount(before, v.guardrail) + 1
                  ELSE /\ after.agent_id = v.agent_id
                       /\ after.agent_type = v.agent_type
                       /\ after.learning_level = "intermediate"
                       /\ after.coaching_receptiveness = 100
                       /\ DOMAIN after.violation_history = {v.guardrail}
                       /\ after.violation_history[v.guardrail] = 1]_vars

C22_Witness ==
    /\ CoachCall
    /\ ~CallRaised
    /\ Req.violation.agent_id = AgentId
    /\ Req.violation.agent_type = RESEARCHER
    /\ agent_profiles[AgentId].agent_type = SALES_COORDINATOR
    /\ HistoryCount(agent_profiles[AgentId], "hallucination_prevention") = 3
    /\ ResearchAgentId \notin DOMAIN agent_profiles
    /\ \E i \in 1..Len(coaching_history) : coaching_history[i].improved # None

\* C23: a coach call for a violation that has all its fields returns a
\* result, appends one event and raises the count of the guardrail by one,
\* also when a lookup misses: a guardrail outside the tables gets the
\* default principle, the generic examples, the generic explanation and the
\* generic fix; an agent type without an entry gets the generic examples
\* and the generic explanation; a severity that is not one of the four
\* gets depth medium and is not blocking.
C23_LookupMissesDefault ==
    [][(call' # None /\ call'[1].op = "coach_agent"
            /\ ViolationFields \subseteq DOMAIN call'[1].violation) =>
          LET v == call'[1].violation
              ret == result'[1]
              text == ret.coaching
              typed == agent_profiles'[v.agent_id].agent_type
              generic == <<"This guardrail protects integrity and safety for",
                           typed, "agents.">>
          IN  /\ "raised" \notin DOMAIN ret
              /\ Len(coaching_history') = Len(coaching_history) + 1
              /\ coaching_history'[Len(coaching_history')].guardrail = v.guardrail
              /\ CountIn(agent_profiles', v.agent_id, v.guardrail)
                     = CountIn(agent_profiles, v.agent_id, v.guardrail) + 1
              /\ v.guardrail \notin CoachedGuardrails =>
                     /\ ret.principle = <<"Follow the guardrail consistently.", "">>
                     /\ text.principle = ret.principle
                     /\ text.examples = "Follow the principle above."
                     /\ text.why_matters = generic
                     /\ text.specific_fix
                            = "Reformulate response to address the guardrail violation."
              /\ typed # SALES_COORDINATOR =>
                     /\ text.examples = "Follow the principle above."
                     /\ text.why_matters = generic
              /\ v.severity \notin {"critical", "high", "medium", "low"} =>
                     /\ ret.coaching_level = MEDIUM
                     /\ ~ret.blocked
                     /\ coaching_history'[Len(coaching_history')].coaching_depth = MEDIUM]_vars

C23_Witness ==
    /\ CoachCall
    /\ ~CallRaised
    /\ Req.violation.guardrail \notin CoachedGuardrails
    /\ Req.violation.agent_type # SALES_COORDINATOR
    /\ Req.violation.severity = "urgent"
    /\ Ret.coaching_level = MEDIUM
    /\ CountIn(agent_profiles, ResearchAgentId, "data_integrity") = 2
    /\ \E i \in 1..Len(coaching_history) :
           /\ coaching_history[i].agent_id = AgentId
           /\ coaching_history[i].agent_type = RESEARCHER
           /\ coaching_history[i].guardrail \in CoachedGuardrails
           /\ coaching_history[i].coaching_delivered.examples = "Follow the principle above."

(***************************************************************************)
(* coach.py: coach_agent called with dicts that lack a field.              *)
(***************************************************************************)
MaxContractEvents == 2

\* the dict without one of its keys
Without(violation, key) == [k \in DOMAIN violation \ {key} |-> violation[k]]

\* for each of two agents, a dict with all six fields and the six dicts that
\* lack one of them
ContractInputs ==
    LET complete == {Violation(AgentId, SALES_COORDINATOR,
                               "hallucination_prevention", "critical"),
                     Violation(ResearchAgentId, RESEARCHER, "financial_accuracy", "low")}
    IN  complete \cup {Without(v, key) : v \in complete, key \in ViolationFields}

CoachUnderContract ==
    /\ Len(coaching_history) < MaxContractEvents
    /\ \E violation \in ContractInputs, dt \in ClockSteps :
         \E c \in {call_coach_agent(EngineState, violation, dt)} :
            /\ SetEngine(c.cs)
            /\ call' = Some([op |-> "coach_agent", violation |-> violation])
            /\ result' = Some(c.result)
            /\ UNCHANGED <<messages, now>>

NextContract == CoachUnderContract

ContractSpec == InitEmpty /\ [][NextContract]_vars

\* C24: a coach call whose violation lacks one of the six required fields
\* raises and returns no result.
C24_MissingFieldRaises ==
    (CoachCall /\ ~(ViolationFields \subseteq DOMAIN Req.violation)) => CallRaised

\* C30: a coach call that raises leaves agent_profiles, coaching_history and
\* every count as they were.
C30_RaiseLeavesStateUnchanged ==
    [][(call' # None /\ call'[1].op = "coach_agent" /\ "raised" \in DOMAIN result'[1])
          => UNCHANGED <<agent_profiles, coaching_history>>]_vars

\* C27: for every agent id and guardrail, the count in the agent's
\* violation_history equals the number of events in coaching_history with
\* that agent id and guardrail, and the history has no other entry.
C27_CountsMatchLog ==
    /\ \A a \in AgentIds, g \in GuardrailNames :
           CountIn(agent_profiles, a, g) = EventsIn(coaching_history, a, g)
    /\ DOMAIN agent_profiles \subseteq AgentIds
    /\ \A a \in DOMAIN agent_profiles :
           DOMAIN agent_profiles[a].violation_history \subseteq GuardrailNames
    /\ \A i \in 1..Len(coaching_history) :
           /\ coaching_history[i].agent_id \in AgentIds
           /\ coaching_history[i].guardrail \in GuardrailNames

C27_Witness ==
    /\ call # None
    /\ Req.op = "record_coaching_outcome"
    /\ Len(coaching_history) = 4
    /\ CountIn(agent_profiles, AgentId, "hallucination_prevention") = 3
    /\ CountIn(agent_profiles, ResearchAgentId, "data_integrity") = 1
    /\ \E i \in 1..Len(coaching_history) : coaching_history[i].improved = Some(TRUE)

\* C28: every profile has learning level intermediate and receptiveness
\* 1.0, and keeps the agent type of the violation that created it whatever
\* agent type later violations carry; the approach selected for it has no
\* suffix; the predicted effectiveness of a coach call is 1.0 or 0.63 (in
\* 1/10000).
C28_ProfileTraitsFixed ==
    [][/\ \A a \in DOMAIN agent_profiles' :
              LET after == agent_profiles'[a]
              IN  /\ after.learning_level = "intermediate"
                  /\ after.coaching_receptiveness = 100
                  /\ after.agent_type
                         = (IF a \in DOMAIN agent_profiles
                            THEN agent_profiles[a].agent_type
                            ELSE call'[1].violation.agent_type)
                  /\ \A g \in GuardrailNames :
                         select_coaching_approach(g, after.agent_type,
                                                  after.learning_level).suffix = ""
       /\ (call' # None /\ call'[1].op = "coach_agent") =>
              /\ result'[1].effectiveness_predicted \in {10000, 6300}
              /\ coaching_history'[Len(coaching_history')].agent_type
                     = agent_profiles'[call'[1].violation.agent_id].agent_type]_vars

C28_Witness ==
    /\ CoachCall
    /\ Req.violation.agent_id = AgentId
    /\ Req.violation.agent_type = RESEARCHER
    /\ agent_profiles[AgentId].agent_type = SALES_COORDINATOR
    /\ coaching_history[Len(coaching_history)].agent_type = SALES_COORDINATOR
    /\ Ret.effectiveness_predicted = 6300
    /\ coaching_history[1].agent_id = AgentId

(***************************************************************************)
(* main.py: concurrent requests on the one engine.  uvicorn.run(app) runs  *)
(* one event loop; every handler is an `async def` and so runs on it, and  *)
(* the loop passes from one handler to another only at an await that       *)
(* suspends.  coach_agent and everything it calls are plain `def`s.  Here  *)
(* call is the list of the requests in flight, each with its position, and *)
(* result the list of their answers.                                       *)
(***************************************************************************)
MaxRequests == 3

\* the violations the concurrent requests report: one agent, two guardrails
ServerViolations ==
    {Violation(AgentId, SALES_COORDINATOR, "data_integrity", "high"),
     Violation(AgentId, SALES_COORDINATOR, "hallucination_prevention", "critical")}

\* a variant of CanRun for handlers that run on preemptive threads
CanRunPreempted(r) == TRUE

\* request r can be given the loop: no other request is inside coach_agent,
\* which has no await
CanRun(r) == \A q \in 1..Len(call) : q # r => call[q].pc # "coaching"

\* a request arrives whose handler will report a violation
Accept ==
    /\ Len(call) < MaxRequests
    /\ \E violation \in ServerViolations :
         call' = Append(call, [op |-> "coach_agent", violation |-> violation,
                               pc |-> "accepted", prior |-> None])
    /\ result' = Append(result, None)
    /\ UNCHANGED <<agent_profiles, coaching_history, clock, messages, now>>

\* steps 1-9 of coach_agent for request r: the profile is got or created
\* and the count before the call is read
EnterCoach ==
    \E r \in 1..Len(call) :
        /\ call[r].pc = "accepted"
        /\ CanRun(r)
        /\ LET violation == call[r].violation
               profiles1 == get_or_create_profile(agent_profiles, violation.agent_id,
                                                  violation.agent_type)
               analysis == analyze_violation(violation, profiles1[violation.agent_id])
           IN  /\ agent_profiles' = profiles1
               /\ call' = [call EXCEPT ![r].pc = "coaching",
                                       ![r].prior = Some(analysis.count)]
        /\ UNCHANGED <<coaching_history, clock, messages, now, result>>

\* step 10 and the return of coach_agent for request r: the event is
\* appended and _update_profile stores the count it reads plus one
LeaveCoach ==
    \E r \in 1..Len(call), dt \in ClockSteps :
        /\ call[r].pc = "coaching"
        /\ \E c \in {coach_agent(EngineState, call[r].violation, dt)} :
            /\ SetEngine(c.cs)
            /\ call' = [call EXCEPT ![r].pc = "done"]
            /\ result' = [result EXCEPT ![r] = Some(c.result)]
        /\ UNCHANGED <<messages, now>>

NextServer == Accept \/ EnterCoach \/ LeaveCoach

ServerSpec == InitEmpty /\ [][NextServer]_vars

\* the requests for a guardrail at a position
RequestsAt(pc, guardrail) ==
    {r \in 1..Len(call) : call[r].pc = pc /\ call[r].violation.guardrail = guardrail}

\* C25: whatever the order in which the loop runs N concurrent coach calls
\* for one agent and guardrail, once k of them are done the count is k, the
\* log has k events for the pair, the counts they saw before their call are
\* the k values 0..k-1, each seen once, and each got the coaching text of
\* the count it saw; the agent has one profile, and no call is inside
\* coach_agent while another is.
C25_CoachCallsSerialized ==
    /\ \A g \in GuardrailNames :
           LET done == RequestsAt("done", g)
               k == Cardinality(done)
           IN  /\ CountIn(agent_profiles, AgentId, g) = k
               /\ EventsIn(coaching_history, AgentId, g) = k
               /\ {call[r].prior[1] : r \in done} = 0..(k - 1)
               /\ \A r \in RequestsAt("coaching", g) : call[r].prior = Some(k)
               /\ \A r \in done :
                      /\ result[r][1].coaching.has_pattern <=> call[r].prior[1] >= 1
                      /\ result[r][1].coaching.pattern.band
                             = (IF call[r].prior[1] >= 3 THEN 3 ELSE call[r].prior[1])
    /\ DOMAIN agent_profiles \subseteq {AgentId}
    /\ Len(coaching_history)
           = Cardinality({r \in 1..Len(call) : call[r].pc = "done"})
    /\ Cardinality({r \in 1..Len(call) : call[r].pc = "coaching"}) <= 1

C25_Witness ==
    /\ Len(call) = 3
    /\ \A r \in 1..3 : call[r].pc = "done"
                          /\ call[r].violation.guardrail = "data_integrity"
    /\ call[3].prior = Some(0)
    /\ call[1].prior = Some(1)
    /\ call[2].prior = Some(2)
    /\ CountIn(agent_profiles, AgentId, "data_integrity") = 3
    /\ Len(coaching_history) = 3

(***************************************************************************)
(* main.py: send_message, next to contact_buyers, while time passes.  The  *)
(* answer of send_message records in sms the call it made to the SMS       *)
(* gateway, None if it made none.                                          *)
(***************************************************************************)
MaxDrafted == 3

MaxSkipped == 1

MaxTicks == 2

\* the hours between two requests that are not made in the same hour
TickHours == HoursWindow \div 2

RECURSIVE RowWithId(_, _, _)
\* db.query(Message).filter(Message.id == message_id).first(): the position
\* of the row, 0 if there is none
RowWithId(msgs, message_id, k) ==
    IF k > Len(msgs) THEN 0
    ELSE IF msgs[k].id = message_id THEN k
    ELSE RowWithId(msgs, message_id, k + 1)

\* db.query(Buyer).filter(Buyer.id == buyer_id): the rows found
BuyersWithId(buyer_id) ==
    {AllBuyers[k] : k \in {j \in 1..Len(AllBuyers) : AllBuyers[j].id = buyer_id}}

\* sms_gateway.send_sms(buyer.phone, buyer.carrier, message_text) and what
\* it returned: success is False for an unsupported carrier or an SMTP error
SendSms(buyer, message_text, success) ==
    Some([phone |-> buyer.phone, text |-> message_text, success |-> success])

\* a variant of send_message without the test of the status
send_message_unchecked(msgs, message_id, success, at) ==
    LET k == RowWithId(msgs, message_id, 1)
    IN  IF k = 0
        THEN [msgs |-> msgs, ret |-> [status_code |-> 404, sms |-> None]]
        ELSE LET buyer == CHOOSE b \in BuyersWithId(msgs[k].buyer_id) : TRUE
                 sms == SendSms(buyer, msgs[k].message_text, success)
             IN  IF ~success
                 THEN [msgs |-> msgs, ret |-> [status_code |-> 500, sms |-> sms]]
                 ELSE [msgs |-> [msgs EXCEPT ![k].status = "sent",
                                             ![k].sent_at = Some(at)],
                       ret |-> [status_code |-> 200, sms |-> sms]]

\* POST /api/v1/messages/send: [msgs |-> the table after the request, ret |->
\* the status code of the answer and the gateway call made]
send_message(msgs, message_id, success, at) ==
    LET k == RowWithId(msgs, message_id, 1)
    IN  IF k = 0
        THEN [msgs |-> msgs, ret |-> [status_code |-> 404, sms |-> None]]
        ELSE IF msgs[k].status # "draft"
        THEN [msgs |-> msgs, ret |-> [status_code |-> 400, sms |-> None]]
        ELSE IF BuyersWithId(msgs[k].buyer_id) = {}
        THEN [msgs |-> msgs, ret |-> [status_code |-> 404, sms |-> None]]
        ELSE LET buyer == CHOOSE b \in BuyersWithId(msgs[k].buyer_id) : TRUE
                 sms == SendSms(buyer, msgs[k].message_text, success)
             IN  IF ~success
                 THEN [msgs |-> msgs, ret |-> [status_code |-> 500, sms |-> sms]]
                 ELSE [msgs |-> [msgs EXCEPT ![k].status = "sent",
                                             ![k].sent_at = Some(at)],
                       ret |-> [status_code |-> 200, sms |-> sms]]

\* contact_buyers for a priced catch, the generation step returning the
\* clean text for every buyer
DraftForBuyers ==
    /\ call = None
    /\ Len(coaching_history) < MaxSkipped
    /\ Len(messages) < MaxDrafted
    /\ \E catch \in Catches, buyers \in BuyerLists \ {<<>>}, dt \in ClockSteps :
         contact_buyers(catch, Some(LatestPrice(catch)), buyers,
                        SameForAll(catch, LatestPrice(catch), buyers, 1, Len(buyers)), dt)

\* a send request for the id of a row or for an id no row has
SendMessage ==
    /\ call = None
    /\ \E message_id \in 1..(Len(messages) + 1), success \in BOOLEAN :
         \E s \in {send_message(messages, message_id, success, now)} :
            /\ messages' = s.msgs
            /\ call' = Some([op |-> "send_message", message_id |-> message_id])
            /\ result' = Some(s.ret)
    /\ UNCHANGED <<agent_profiles, coaching_history, clock, now>>

\* time passes between two requests
Tick ==
    /\ call = None
    /\ now < StartHour + MaxTicks * TickHours
    /\ now' = now + TickHours
    /\ UNCHANGED <<agent_profiles, coaching_history, clock, messages, call, result>>

NextSend == DraftForBuyers \/ SendMessage \/ Tick \/ Respond

SendSpec == Init /\ [][NextSend]_vars

\* the request is a send request
SendCall(c) == c # None /\ "message_id" \in DOMAIN c[1]

\* C26: a row is created as a draft with a null sent_at, and by no send
\* request; the gateway is called only by a send request for a row whose
\* status is draft, with that row's text; a row changes only from draft to
\* sent, with sent_at the time of the request, in a send request for its id
\* whose gateway call succeeded; a failed send and a refused request leave
\* the table as it was, so a sent row is never sent again.
C26_DraftsSentOnlyOnRequest ==
    [][/\ Len(messages') >= Len(messages)
       /\ \A i \in (Len(messages) + 1)..Len(messages') :
              /\ messages'[i].status = "draft"
              /\ messages'[i].sent_at = None
              /\ ~SendCall(call')
       /\ \A i \in 1..Len(messages) :
              \/ messages'[i] = messages[i]
              \/ /\ call = None
                 /\ SendCall(call')
                 /\ call'[1].message_id = messages[i].id
                 /\ messages[i].status = "draft"
                 /\ messages[i].sent_at = None
                 /\ result'[1].status_code = 200
                 /\ result'[1].sms # None
                 /\ result'[1].sms[1].success
                 /\ messages'[i] = [messages[i] EXCEPT !.status = "sent",
                                                       !.sent_at = Some(now)]
       /\ (call = None /\ call' # None) =>
              IF SendCall(call')
              THEN LET sms == result'[1].sms
                       rows == {i \in 1..Len(messages) :
                                   messages[i].id = call'[1].message_id}
                   IN  /\ sms # None =>
                              \E i \in rows : /\ messages[i].status = "draft"
                                              /\ sms[1].text = messages[i].message_text
                       /\ (sms # None /\ sms[1].success) =>
                              \E i \in rows : /\ messages'[i].status = "sent"
                                              /\ messages'[i].sent_at = Some(now)
                       /\ (sms # None /\ ~sms[1].success) =>
                              /\ messages' = messages
                              /\ result'[1].status_code = 500
                       /\ sms = None => messages' = messages
              ELSE "sms" \notin DOMAIN result'[1]]_vars

C26_Witness ==
    /\ SendCall(call)
    /\ Ret.status_code = 500
    /\ Ret.sms # None
    /\ Len(messages) >= 3
    /\ messages[Req.message_id].status = "draft"
    /\ messages[Req.message_id].sent_at = None
    /\ \E i \in 1..Len(messages) : /\ messages[i].status = "sent"
                                   /\ messages[i].sent_at[1] > StartHour
    /\ \E i \in 3..Len(messages) : messages[i].status = "draft"

\* C29: no buyer has two sent messages whose sent_at times are less than 24
\* hours apart.
C29_DeliveriesADayApart ==
    \A i, j \in 1..Len(messages) :
        (/\ i < j
         /\ messages[i].buyer_id = messages[j].buyer_id
         /\ messages[i].status = "sent"
         /\ messages[j].status = "sent")
            => Abs(messages[i].sent_at[1] - messages[j].sent_at[1]) >= HoursWindow

====
